---- MODULE Spec2Model ----
(***************************************************************************)
(* Model of pyrism's TMatrix object (src/pyrism/scattering/tmat/tmatrix.py)*)
(* as a state machine: the configuration fields, the truncation order and  *)
(* the lazily filled derived slots, with one action per property read,     *)
(* setter and user-callable method.                                        *)
(*                                                                         *)
(* The external kernels (pyrism.core.tma) are uninterpreted functions: the *)
(* value a kernel returns is the record of the kernel's name and the       *)
(* arguments it was called with, so two kernel results are equal exactly   *)
(* when they were computed from equal arguments.                           *)
(*                                                                         *)
(* A method is an operator on a "frame" m = [o, err, calls, ret]: o is the *)
(* object, err the pending exception (OK when none), calls the sequence of *)
(* producers and kernels entered so far, ret the value returned.  A raised *)
(* exception skips the rest of the method, as in Python.                   *)
(***************************************************************************)
EXTENDS Integers, Sequences, FiniteSets, TLC

VARIABLES pc, obj, user, last, nset, dirty

vars == <<pc, obj, user, last, nset, dirty>>

\* ---------------------------------------------------------------------------
\* Bounds
\* ---------------------------------------------------------------------------
\* setter calls in one object's lifetime
MaxSets == 1

\* ---------------------------------------------------------------------------
\* Values
\* ---------------------------------------------------------------------------
None == [k |-> "None"]

OK == "OK"

\* tm_auxiliary.param_radius_type / param_shape / param_orientation
param_radius_type == [REV |-> 1, M |-> 2, REA |-> 0]

param_shape == [SPH |-> -1, CYL |-> -2]

param_orientation == {"S", "AA", "AF"}

RadiusTypeInputs == {"REV", "M", "REA", "XX"}

ShapeInputs == {"SPH", "CYL", "XX"}

OrientationInputs == {"S", "AA", "AF", "XX"}

\* whether the str object given as orientation or orientation_pdf is the very object of the
\* literal in tmatrix.py: CPython shares one-character strings and the
\* literals of a program, and builds a new object for a string made at run time
LiteralInputs(value) == IF value \in {"AF", "gauss", "uniform"} THEN BOOLEAN ELSE {TRUE}

PdfInputs == {"None", "gauss", "uniform", "callable", "psd"}

FrequencyInputs == {1, 2}

WavelengthInputs == {1, 2}

RadiusInputs == {1, 2}

AxisRatioInputs == {1, 2}

EpsInputs == {3}

QuadratureInputs == {5}

\* a radius is the user's number and the volume-equivalent conversions applied
\* to it since, each with the axis ratio and shape it was applied with
Radius(r) == [base |-> r, ev |-> <<>>]

\* EMW: wavelength from frequency (c / f in the chosen units)
EMW_wavelength(frequency) == 2 \div frequency

\* ---------------------------------------------------------------------------
\* External kernels (pyrism.core.tma), uninterpreted
\* ---------------------------------------------------------------------------
\* closed-form maximum radius -> volume-equivalent radius; a sphere (spheroid
\* with axis ratio 1) has maximum radius = volume-equivalent radius
equal_volume_from_maximum_wrapper(radius, axis_ratio, shape) ==
    IF shape = param_shape.SPH /\ axis_ratio = 1
    THEN radius
    ELSE [radius EXCEPT !.ev = Append(@, <<axis_ratio, shape>>)]

\* the truncation-order kernel does not converge when the radius is too
\* large for the wavelength
NMAX_diverges(radius, wavelength) == radius.base > wavelength

\* the kernel takes a volume-equivalent (1) or an area-equivalent (0) radius;
\* the two are the same number for a sphere (spheroid with axis ratio 1)
NMAX_VEC_WRAPPER(radius, radius_type, wavelength, eps, axis_ratio, shape) ==
    [k |-> "NMAX", radius |-> radius,
     radius_type |-> IF radius_type = 0 /\ shape = param_shape.SPH /\ axis_ratio = 1 THEN 1 ELSE radius_type,
     wavelength |-> wavelength,
     eps |-> eps, axis_ratio |-> axis_ratio, shape |-> shape]

SZ_S_VEC_WRAPPER(nmax, wavelength, izaDeg, vzaDeg, iaaDeg, vaaDeg, alphaDeg, betaDeg) ==
    LET a == [nmax |-> nmax, wavelength |-> wavelength, izaDeg |-> izaDeg, vzaDeg |-> vzaDeg,
              iaaDeg |-> iaaDeg, vaaDeg |-> vaaDeg, alphaDeg |-> alphaDeg, betaDeg |-> betaDeg]
    IN  [S |-> [k |-> "S", dim |-> 2, a |-> a], Z |-> [k |-> "Z", dim |-> 4, a |-> a]]

DBLQUAD_Z_S_WRAPPER(nmax, wavelength, xzaDeg, xaaDeg, alphaDeg, betaDeg, iza_flag) ==
    [k |-> "DBLQUAD_Z", nmax |-> nmax, wavelength |-> wavelength, xzaDeg |-> xzaDeg, xaaDeg |-> xaaDeg,
     alphaDeg |-> alphaDeg, betaDeg |-> betaDeg, iza_flag |-> iza_flag]

\* the integration of the scattering cross section does not converge when
\* the permittivity is too large
XSEC_QS_diverges(nmax) == nmax.eps > 3

XSEC_QS_S_WRAPPER(nmax, wavelength, izaDeg, iaaDeg, alphaDeg, betaDeg) ==
    [k |-> "XSEC_QS", nmax |-> nmax, wavelength |-> wavelength, izaDeg |-> izaDeg, iaaDeg |-> iaaDeg,
     alphaDeg |-> alphaDeg, betaDeg |-> betaDeg]

XSEC_ASY_S_WRAPPER(nmax, wavelength, izaDeg, iaaDeg, alphaDeg, betaDeg) ==
    [k |-> "XSEC_ASY", nmax |-> nmax, wavelength |-> wavelength, izaDeg |-> izaDeg, iaaDeg |-> iaaDeg,
     alphaDeg |-> alphaDeg, betaDeg |-> betaDeg]

XSEC_QE_WRAPPER(S, wavelength) == [k |-> "XSEC_QE", S |-> S, wavelength |-> wavelength]

XSEC_QSI_WRAPPER(Z) == [k |-> "XSEC_QSI", Z |-> Z]

KE_WRAPPER(factor, S) == [k |-> "KE", factor |-> factor, S |-> S]

KT_WRAPPER(ke) == [k |-> "KT", ke |-> ke]

KS_WRAPPER(ke, omega) == [k |-> "KS", ke |-> ke, omega |-> omega]

KA_WRAPPER(ks, omega) == [k |-> "KA", ks |-> ks, omega |-> omega]

\* numpy's elementwise a / b
Divide(a, b) == [k |-> "div", num |-> a, den |-> b]

\* the elementwise quotient ks / ke: the scattering kernel derives ks
\* algebraically as ke . omega, so dividing by the ke it was derived from gives
\* back its omega; any other quotient stays a term
ks_over_ke(ks, ke) == IF ks.k = "KS" /\ ks.ke = ke THEN ks.omega ELSE Divide(ks, ke)

\* Orientation.gaussian() / Orientation.uniform()
Orientation_gaussian == "gaussian"

Orientation_uniform == "uniform"

\* ---------------------------------------------------------------------------
\* Frames
\* ---------------------------------------------------------------------------
Frame(o) == [o |-> o, err |-> OK, calls |-> <<>>, ret |-> None]

Call(m, name) == [m EXCEPT !.calls = Append(@, name)]

Raise(m, e) == [m EXCEPT !.err = e]

Return(m, v) == [m EXCEPT !.ret = v]

\* the statements after a call: r, unless the call left m with an exception
Then(m, r) == IF m.err # OK THEN m ELSE r

\* the element of a singleton set; in Value({e(x) : x \in {v}}) the local
\* variable x holds the value of v, computed once
Value(S) == CHOOSE x \in S : TRUE

\* ---------------------------------------------------------------------------
\* TMatrix: private methods and properties
\* ---------------------------------------------------------------------------
\* __property_return: every branch returns X
property_return(o, X, normalize) ==
    IF normalize
    THEN (IF o.normalize THEN X ELSE X)
    ELSE (IF o.normalize THEN X ELSE X)

\* align_all((canonical, override)): the override aligned to the canonical array
align_all(canonical, override) == override

NoOverride ==
    [izaDeg |-> None, vzaDeg |-> None, iaaDeg |-> None, vaaDeg |-> None, alphaDeg |-> None, betaDeg |-> None]

Angle(v) == [k |-> "deg", v |-> v]

\* self.__orient is '<literal>'
orient_is(o, literal) == o.orient = literal /\ (literal = "S" \/ o.orient_literal)

\* variant of __NMAX that hands the kernel the radius and the radius type as stored
NMAX_unconverted(m) ==
    LET o == m.o
        m1 == Call(Call(m, "NMAX"), "NMAX_VEC_WRAPPER")
    IN  IF NMAX_diverges(o.radius, o.wavelength)
        THEN Raise(m1, "TruncationOrderError")
        ELSE Return(m1, NMAX_VEC_WRAPPER(o.radius, o.radius_type, o.wavelength, o.eps, o.axis_ratio, o.shape_volume))

\* variant of __NMAX that invokes the kernel a second time with the same arguments
NMAX_twice(m) ==
    LET o == m.o
        maximum == o.radius_type = 2
        radius_type == IF maximum THEN 1 ELSE o.radius_type
        radius == IF maximum
                  THEN equal_volume_from_maximum_wrapper(o.radius, o.axis_ratio, o.shape_volume)
                  ELSE o.radius
        m1 == Call(Call(Call(m, "NMAX"), "NMAX_VEC_WRAPPER"), "NMAX_VEC_WRAPPER")
    IN  IF NMAX_diverges(radius, o.wavelength)
        THEN Raise(m1, "TruncationOrderError")
        ELSE Return([m1 EXCEPT !.o.radius = radius],
                    NMAX_VEC_WRAPPER(radius, radius_type, o.wavelength, o.eps, o.axis_ratio, o.shape_volume))

\* __NMAX
NMAX(m) ==
    LET o == m.o
        maximum == o.radius_type = 2
        radius_type == IF maximum THEN 1 ELSE o.radius_type
        radius == IF maximum
                  THEN equal_volume_from_maximum_wrapper(o.radius, o.axis_ratio, o.shape_volume)
                  ELSE o.radius
        m1 == Call(Call(m, "NMAX"), "NMAX_VEC_WRAPPER")
    IN  IF NMAX_diverges(radius, o.wavelength)
        THEN Raise(m1, "TruncationOrderError")
        ELSE Return([m1 EXCEPT !.o.radius = radius],
                    NMAX_VEC_WRAPPER(radius, radius_type, o.wavelength, o.eps, o.axis_ratio, o.shape_volume))

\* variant of compute_SZ that stores the aligned overrides as the canonical angles
compute_SZ_writeback(m, ov) ==
    LET o == m.o
        pick(f) == IF ov[f] # None THEN align_all(o[f], ov[f]) ELSE o[f]
        m1 == Call(m, IF ov = NoOverride THEN "compute_SZ" ELSE "compute_SZ(override)")
        m2 == [m1 EXCEPT !.o.izaDeg = pick("izaDeg"), !.o.vzaDeg = pick("vzaDeg")]
    IN  IF orient_is(o, "S")
        THEN Return(Call(m2, "SZ_S_VEC_WRAPPER"),
                    SZ_S_VEC_WRAPPER(o.nmax, o.wavelength, pick("izaDeg"), pick("vzaDeg"), pick("iaaDeg"),
                                     pick("vaaDeg"), pick("alphaDeg"), pick("betaDeg")))
        ELSE IF orient_is(o, "AF")
        THEN Raise(m1, "AttributeError")
        ELSE Raise(m1, "ValueError")

\* variant of compute_SZ that sends every mode but 'AF' to the single-orientation kernel
compute_SZ_anymode(m, ov) ==
    LET o == m.o
        pick(f) == IF ov[f] # None THEN align_all(o[f], ov[f]) ELSE o[f]
        m1 == Call(m, IF ov = NoOverride THEN "compute_SZ" ELSE "compute_SZ(override)")
    IN  IF orient_is(o, "AF")
        THEN Raise(m1, "AttributeError")
        ELSE Return(Call(m1, "SZ_S_VEC_WRAPPER"),
                    SZ_S_VEC_WRAPPER(o.nmax, o.wavelength, pick("izaDeg"), pick("vzaDeg"), pick("iaaDeg"),
                                     pick("vaaDeg"), pick("alphaDeg"), pick("betaDeg")))

\* compute_SZ(izaDeg=None, ..., betaDeg=None)
compute_SZ(m, ov) ==
    LET o == m.o
        pick(f) == IF ov[f] # None THEN align_all(o[f], ov[f]) ELSE o[f]
        m1 == Call(m, IF ov = NoOverride THEN "compute_SZ" ELSE "compute_SZ(override)")
    IN  IF orient_is(o, "S")
        THEN Return(Call(m1, "SZ_S_VEC_WRAPPER"),
                    SZ_S_VEC_WRAPPER(o.nmax, o.wavelength, pick("izaDeg"), pick("vzaDeg"), pick("iaaDeg"),
                                     pick("vaaDeg"), pick("alphaDeg"), pick("betaDeg")))
        ELSE IF orient_is(o, "AF")
        THEN Raise(m1, "AttributeError")   \* self.or_pdf: TMatrix has no attribute or_pdf
        ELSE Raise(m1, "ValueError")

\* variant of assign_SZ that stores S and drops Z
assign_SZ_onlyS(m) ==
    Value({IF r.err # OK THEN r ELSE [r EXCEPT !.o.S = r.ret.S] : r \in {compute_SZ(m, NoOverride)}})

\* self.__S, self.__Z = self.compute_SZ()
assign_SZ(m) ==
    Value({IF r.err # OK THEN r ELSE [r EXCEPT !.o.S = r.ret.S, !.o.Z = r.ret.Z] :
           r \in {compute_SZ(m, NoOverride)}})

\* self.__<slot> = <call>: call is the frame the call on the right-hand side leaves
assign(call, slot) ==
    Value({IF r.err # OK THEN r ELSE [r EXCEPT !.o[slot] = r.ret] : r \in {call}})

prop_S(m) ==
    Value({Then(m1, Return(m1, property_return(m1.o, m1.o.S, FALSE))) :
           m1 \in {IF m.o.S = None THEN assign_SZ(m) ELSE m}})

prop_Z(m) ==
    Value({Then(m1, Return(m1, property_return(m1.o, m1.o.Z, TRUE))) :
           m1 \in {IF m.o.Z = None THEN assign_SZ(m) ELSE m}})

prop_SZ(m) ==
    Value({Then(m1, Return(m1, <<property_return(m1.o, m1.o.S, FALSE), property_return(m1.o, m1.o.Z, TRUE)>>)) :
           m1 \in {IF m.o.S = None THEN assign_SZ(m)
                   ELSE IF m.o.Z = None THEN assign_SZ(m)
                   ELSE m}})

\* np.zeros((4, 4)) filled from X[-1, i, j], i, j in range(4): the copy stops
\* with IndexError at the first j outside X's per-particle dimension
norm_copy(X) == [k |-> "norm", of |-> X, copied |-> IF X.dim >= 4 THEN 16 ELSE X.dim]

\* variant of Znorm that evaluates S and Z before it looks at normalize
prop_Znorm_eager(m) ==
    Value({Then(m1, Return(m1, None)) :
           m1 \in {IF m.o.Z = None THEN assign_SZ(m) ELSE m}})

prop_Znorm(m) ==
    IF m.o.normalize
    THEN LET fill(x) == LET y == [Call(x, "Znorm") EXCEPT !.o.Znorm = norm_copy(x.o.Z)]
                        IN  IF x.o.Z.dim >= 4 THEN y ELSE Raise(y, "IndexError")
         IN  Value({Value({Then(m2, Return(m2, m2.o.Znorm)) :
                           m2 \in {Then(m1, IF m1.o.Znorm = None THEN fill(m1) ELSE m1)}}) :
                    m1 \in {IF m.o.Z = None THEN assign_SZ(m) ELSE m}})
    ELSE Return(m, None)

prop_Snorm(m) ==
    IF m.o.normalize
    THEN LET fill(x) == LET y == [Call(x, "Snorm") EXCEPT !.o.Snorm = norm_copy(x.o.S)]
                        IN  IF x.o.S.dim >= 4 THEN y ELSE Raise(y, "IndexError")
         IN  Value({Value({Then(m2, Return(m2, m2.o.Snorm)) :
                           m2 \in {Then(m1, IF m1.o.Snorm = None THEN fill(m1) ELSE m1)}}) :
                    m1 \in {IF m.o.S = None THEN assign_SZ(m) ELSE m}})
    ELSE Return(m, None)

\* __dblquad(iza_flag=True)
dblquad(m, iza_flag) ==
    LET o == m.o
        xzaDeg == IF iza_flag THEN o.vzaDeg ELSE o.izaDeg
        xaaDeg == IF iza_flag THEN o.vaaDeg ELSE o.iaaDeg
        m1 == Call(m, "dblquad")
    IN  IF orient_is(o, "S")
        THEN Return(Call(m1, "DBLQUAD_Z_S_WRAPPER"),
                    DBLQUAD_Z_S_WRAPPER(o.nmax, o.wavelength, xzaDeg, xaaDeg, o.alphaDeg, o.betaDeg, iza_flag))
        ELSE IF orient_is(o, "AF")
        THEN Raise(m1, "AttributeError")
        ELSE Raise(m1, "ValueError")

prop_dblquad(m) ==
    Value({Then(m1, Return(m1, property_return(m1.o, m1.o.dblZi, TRUE))) :
           m1 \in {IF m.o.dblZi = None THEN assign(dblquad(m, TRUE), "dblZi") ELSE m}})

\* factor
factor(o) == [k |-> "factor", N |-> o.N, wavelength |-> o.wavelength]

\* variant of __QS that invokes the kernel again when it has failed
QS_retry(m) ==
    LET o == m.o
        m1 == Call(m, "QS")
    IN  IF orient_is(o, "S")
        THEN IF XSEC_QS_diverges(o.nmax)
             THEN Raise(Call(Call(m1, "XSEC_QS_S_WRAPPER"), "XSEC_QS_S_WRAPPER"), "IntegrationError")
             ELSE Return(Call(m1, "XSEC_QS_S_WRAPPER"),
                         XSEC_QS_S_WRAPPER(o.nmax, o.wavelength, o.izaDeg, o.iaaDeg, o.alphaDeg, o.betaDeg))
        ELSE IF orient_is(o, "AF")
        THEN Raise(m1, "AttributeError")
        ELSE Raise(m1, "ValueError")

\* __QS
QS(m) ==
    LET o == m.o
        m1 == Call(m, "QS")
    IN  IF orient_is(o, "S")
        THEN IF XSEC_QS_diverges(o.nmax)
             THEN Raise(Call(m1, "XSEC_QS_S_WRAPPER"), "IntegrationError")
             ELSE Return(Call(m1, "XSEC_QS_S_WRAPPER"),
                         XSEC_QS_S_WRAPPER(o.nmax, o.wavelength, o.izaDeg, o.iaaDeg, o.alphaDeg, o.betaDeg))
        ELSE IF orient_is(o, "AF")
        THEN Raise(m1, "AttributeError")
        ELSE Raise(m1, "ValueError")

\* __QAS
QAS(m) ==
    LET o == m.o
        m1 == Call(m, "QAS")
    IN  IF orient_is(o, "S")
        THEN Return(Call(m1, "XSEC_ASY_S_WRAPPER"),
                    XSEC_ASY_S_WRAPPER(o.nmax, o.wavelength, o.izaDeg, o.iaaDeg, o.alphaDeg, o.betaDeg))
        ELSE IF orient_is(o, "AF")
        THEN Raise(m1, "AttributeError")
        ELSE Raise(m1, "ValueError")

\* __QE
\* variant of __QE that takes the object's S, evaluating and storing S and Z when absent
QE_from_stored(m) ==
    Value({Then(r, Return(Call(r, "XSEC_QE_WRAPPER"), XSEC_QE_WRAPPER(r.o.S, r.o.wavelength))) :
           r \in {IF m.o.S = None THEN assign_SZ(Call(m, "QE")) ELSE Call(m, "QE")}})

QE(m) ==
    Value({Then(r, Return(Call(r, "XSEC_QE_WRAPPER"), XSEC_QE_WRAPPER(r.ret.S, r.o.wavelength))) :
           r \in {compute_SZ(Call(m, "QE"), [NoOverride EXCEPT !.vzaDeg = m.o.izaDeg, !.vaaDeg = m.o.iaaDeg])}})

\* __I
I(m) ==
    Value({Then(r, Return(Call(r, "XSEC_QSI_WRAPPER"), XSEC_QSI_WRAPPER(r.ret))) :
           r \in {prop_Z(Call(m, "I"))}})

prop_QS(m) ==
    Value({Then(m1, Return(m1, property_return(m1.o, m1.o.XS, FALSE))) :
           m1 \in {IF m.o.XS = None THEN assign(QS(m), "XS") ELSE m}})

prop_QAS(m) ==
    Value({Value({Then(m2, Return(m2, property_return(m2.o, Divide(m2.o.XAS, m2.o.XS), FALSE))) :
                  m2 \in {Then(m1, IF m1.o.XAS = None THEN assign(QAS(m1), "XAS") ELSE m1)}}) :
           m1 \in {IF m.o.XS = None THEN assign(QS(m), "XS") ELSE m}})

prop_QE(m) ==
    Value({Then(m1, Return(m1, property_return(m1.o, m1.o.XE, FALSE))) :
           m1 \in {IF m.o.XE = None THEN assign(QE(m), "XE") ELSE m}})

prop_I(m) ==
    Value({Then(m1, Return(m1, property_return(m1.o, m1.o.XI, FALSE))) :
           m1 \in {IF m.o.XI = None THEN assign(I(m), "XI") ELSE m}})

\* variant of __KE that evaluates the matrices itself and stores neither
KE_direct(m) ==
    Value({Then(r, Return(Call(r, "KE_WRAPPER"), KE_WRAPPER(factor(r.o), r.ret.S))) :
           r \in {compute_SZ(Call(m, "KE"), NoOverride)}})

\* __KE
KE(m) ==
    Value({Then(r, Return(Call(r, "KE_WRAPPER"), KE_WRAPPER(factor(r.o), r.ret))) :
           r \in {prop_S(Call(m, "KE"))}})

prop_ke(m) ==
    Value({Then(m1, Return(m1, property_return(m1.o, m1.o.ke, FALSE))) :
           m1 \in {IF m.o.ke = None THEN assign(KE(m), "ke") ELSE m}})

\* __KT
KT(m) ==
    Value({Then(r, Return(Call(r, "KT_WRAPPER"), KT_WRAPPER(r.ret))) :
           r \in {prop_ke(Call(m, "KT"))}})

prop_kt(m) ==
    Value({Then(m1, Return(m1, property_return(m1.o, m1.o.kt, FALSE))) :
           m1 \in {IF m.o.kt = None THEN assign(KT(m), "kt") ELSE m}})

\* __OMEGA
OMEGA(m) ==
    Value({Value({Then(r2, Return(r2, Divide(r1.ret, r2.ret))) :
                  r2 \in {Then(r1, prop_QE(r1))}}) :
           r1 \in {prop_QS(Call(m, "OMEGA"))}})

\* variant of omega that runs its producer on every read
prop_omega_uncached(m) ==
    Value({Then(m1, Return(m1, property_return(m1.o, m1.o.omega, FALSE))) :
           m1 \in {assign(OMEGA(m), "omega")}})

prop_omega(m) ==
    Value({Then(m1, Return(m1, property_return(m1.o, m1.o.omega, FALSE))) :
           m1 \in {IF m.o.omega = None THEN assign(OMEGA(m), "omega") ELSE m}})

\* variant of __KS that hands the kernel the scattering cross section for omega
KS_from_QS(m) ==
    Value({Value({Then(r2, Return(Call(r2, "KS_WRAPPER"), KS_WRAPPER(r1.ret, r2.ret))) :
                  r2 \in {Then(r1, prop_QS(r1))}}) :
           r1 \in {prop_ke(Call(m, "KS"))}})

\* variant of __KS that reads kt on the way and takes the ke it has left stored
KS_with_kt(m) ==
    Value({Value({Then(r2, Return(Call(r2, "KS_WRAPPER"), KS_WRAPPER(r1.o.ke, r2.ret))) :
                  r2 \in {Then(r1, prop_omega(r1))}}) :
           r1 \in {prop_kt(Call(m, "KS"))}})

\* __KS
KS(m) ==
    Value({Value({Then(r2, Return(Call(r2, "KS_WRAPPER"), KS_WRAPPER(r1.ret, r2.ret))) :
                  r2 \in {Then(r1, prop_omega(r1))}}) :
           r1 \in {prop_ke(Call(m, "KS"))}})

prop_ks(m) ==
    Value({Then(m1, Return(m1, property_return(m1.o, m1.o.ks, FALSE))) :
           m1 \in {IF m.o.ks = None THEN assign(KS(m), "ks") ELSE m}})

\* __KA
KA(m) ==
    Value({Value({Then(r2, Return(Call(r2, "KA_WRAPPER"), KA_WRAPPER(r1.ret, r2.ret))) :
                  r2 \in {Then(r1, prop_omega(r1))}}) :
           r1 \in {prop_ks(Call(m, "KA"))}})

prop_ka(m) ==
    Value({Then(m1, Return(m1, property_return(m1.o, m1.o.ka, FALSE))) :
           m1 \in {IF m.o.ka = None THEN assign(KA(m), "ka") ELSE m}})

\* __get_pdf
get_pdf(m, pdf, literal) ==
    IF pdf = "callable" THEN Return(m, "callable")
    ELSE IF pdf = "None" \/ (pdf = "gauss" /\ literal) THEN Return(m, Orientation_gaussian)
    ELSE IF pdf = "uniform" /\ literal THEN Return(m, Orientation_uniform)
    ELSE Raise(m, "AssertionError")

\* variant of the guard of __update_attributes that refreshes every slot
is_not_None_always(o, slot) == TRUE

\* "if self.__<slot> is not None" in __update_attributes
is_not_None(o, slot) == o[slot] # None

\* variant of the order that refreshes ka before omega and ks
RefreshOrder_ka_early == <<"Snorm", "Znorm", "dblZi", "XS", "XAS", "XE", "XI", "ke", "kt", "ka", "omega", "ks">>

\* the slots __update_attributes refreshes after S and Z, in its order
RefreshOrder == <<"Snorm", "Znorm", "dblZi", "XS", "XAS", "XE", "XI", "ke", "kt", "omega", "ks", "ka">>

\* the right-hand side of "self.__<slot> = ..." in __update_attributes
refresh_call(m, slot) ==
    CASE slot = "Snorm" -> prop_Snorm(m)
      [] slot = "Znorm" -> prop_Znorm(m)
      [] slot = "dblZi" -> dblquad(m, TRUE)
      [] slot = "XS" -> QS(m)
      [] slot = "XAS" -> QAS(m)
      [] slot = "XE" -> QE(m)
      [] slot = "XI" -> I(m)
      [] slot = "ke" -> KE(m)
      [] slot = "kt" -> KT(m)
      [] slot = "omega" -> OMEGA(m)
      [] slot = "ks" -> KS(m)
      [] slot = "ka" -> KA(m)

\* the statements of __update_attributes from the i-th slot of RefreshOrder on
RECURSIVE refresh(_, _)
refresh(m, i) ==
    IF i > Len(RefreshOrder) \/ m.err # OK
    THEN m
    ELSE Value({refresh(x, i + 1) :
                x \in {IF is_not_None(m.o, RefreshOrder[i])
                       THEN assign(refresh_call(m, RefreshOrder[i]), RefreshOrder[i])
                       ELSE m}})

\* __update_attributes
update_attributes(m) ==
    Value({Value({Return(refresh(s2, 1), None) :
                  s2 \in {Then(s1, IF is_not_None(s1.o, "S") \/ is_not_None(s1.o, "Z") THEN assign_SZ(s1) ELSE s1)}}) :
           s1 \in {assign(NMAX(Call(m, "update_attributes")), "nmax")}})

\* ---------------------------------------------------------------------------
\* TMatrix: setters
\* ---------------------------------------------------------------------------
set_frequency(m, value) ==
    update_attributes([m EXCEPT !.o.wavelength = EMW_wavelength(value)])

set_wavelength(m, value) ==
    update_attributes([m EXCEPT !.o.wavelength = value])

set_radius(m, value) ==
    update_attributes([m EXCEPT !.o.radius = Radius(value)])

set_radius_type(m, value) ==
    IF value \notin DOMAIN param_radius_type
    THEN Raise(m, "ValueError")
    ELSE update_attributes([m EXCEPT !.o.radius_type = param_radius_type[value]])

set_axis_ratio(m, value) ==
    update_attributes([m EXCEPT !.o.axis_ratio = value])

set_shape_volume(m, value) ==
    IF value \notin DOMAIN param_shape
    THEN Raise(m, "ValueError")
    ELSE update_attributes([m EXCEPT !.o.shape_volume = param_shape[value]])

set_eps(m, value) ==
    update_attributes([m EXCEPT !.o.eps = value])

\* variant of the orientation setter that validates nothing
set_orientation_unchecked(m, value, literal) ==
    update_attributes([m EXCEPT !.o.orient = value, !.o.orient_literal = literal])

set_orientation(m, value, literal) ==
    IF value \notin param_orientation
    THEN Raise(m, "ValueError")
    ELSE update_attributes([m EXCEPT !.o.orient = value, !.o.orient_literal = literal])

set_orientation_pdf(m, value, literal) ==
    Value({Then(r, update_attributes([r EXCEPT !.o.or_pdf = r.ret])) : r \in {get_pdf(m, value, literal)}})

set_n_alpha(m, value) ==
    update_attributes([m EXCEPT !.o.n_alpha = value])

set_n_beta(m, value) ==
    update_attributes([m EXCEPT !.o.n_beta = value])

\* ---------------------------------------------------------------------------
\* TMatrix.__init__
\* ---------------------------------------------------------------------------
NoObject == [k |-> "NoObject"]

init(a) ==
    LET m0 == Frame(NoObject)
    IN  IF a.radius_type \notin DOMAIN param_radius_type THEN Raise(m0, "ValueError")
        ELSE IF a.shape \notin DOMAIN param_shape THEN Raise(m0, "ValueError")
        ELSE IF a.orientation \notin param_orientation THEN Raise(m0, "ValueError")
        ELSE LET m1 == Call(Call(m0, "align_all"), "Angles.__init__")
                 pdf == get_pdf(m1, a.orientation_pdf, a.orientation_pdf_literal)
                 fields(x) ==
                     [x EXCEPT !.o =
                        [izaDeg |-> a.izaDeg, vzaDeg |-> a.vzaDeg, iaaDeg |-> a.iaaDeg, vaaDeg |-> a.vaaDeg,
                         alphaDeg |-> a.alphaDeg, betaDeg |-> a.betaDeg, normalize |-> a.normalize,
                         wavelength |-> EMW_wavelength(a.frequency),
                         radius |-> Radius(a.radius), radius_type |-> param_radius_type[a.radius_type],
                         axis_ratio |-> a.axis_ratio, shape_volume |-> param_shape[a.shape],
                         orient |-> a.orientation, orient_literal |-> a.orientation_literal,
                         or_pdf |-> pdf.ret,
                         n_alpha |-> a.n_alpha, n_beta |-> a.n_beta, eps |-> a.eps, N |-> a.N,
                         S |-> None, Z |-> None, Snorm |-> None, Znorm |-> None, dblZi |-> None,
                         XS |-> None, XAS |-> None, XE |-> None, XI |-> None,
                         ke |-> None, ks |-> None, ka |-> None, omega |-> None, kt |-> None,
                         nmax |-> None]]
             IN  Then(pdf, Return(assign(NMAX(fields(pdf)), "nmax"), None))

\* ---------------------------------------------------------------------------
\* The state machine
\* ---------------------------------------------------------------------------
\* constructor arguments: the defaults of __init__ with a cylinder-capable
\* choice of enums; a normalized object is built from the default enums
Defaults ==
    [izaDeg |-> Angle(30), vzaDeg |-> Angle(40), iaaDeg |-> Angle(0), vaaDeg |-> Angle(10),
     alphaDeg |-> Angle(0), betaDeg |-> Angle(0), N |-> 1, n_alpha |-> 5, n_beta |-> 5,
     frequency |-> 1, radius |-> 1, eps |-> 3, axis_ratio |-> 1,
     radius_type |-> "REV", shape |-> "SPH", orientation |-> "S", orientation_literal |-> TRUE,
     orientation_pdf |-> "None", orientation_pdf_literal |-> TRUE, normalize |-> FALSE]

InitArgs ==
    UNION {{[Defaults EXCEPT !.radius_type = rt, !.shape = sh, !.orientation = ori, !.orientation_literal = lit] :
               rt \in RadiusTypeInputs, sh \in ShapeInputs, lit \in LiteralInputs(ori)} :
           ori \in OrientationInputs}
    \cup UNION {{[Defaults EXCEPT !.orientation_pdf = pdf, !.orientation_pdf_literal = lit] :
                     lit \in LiteralInputs(pdf)} :
                 pdf \in PdfInputs}
    \cup {[Defaults EXCEPT !.normalize = TRUE], [Defaults EXCEPT !.radius = 2], [Defaults EXCEPT !.eps = 4]}

OverrideInputs ==
    {[NoOverride EXCEPT !.izaDeg = i, !.vzaDeg = v] : i \in {None, Angle(20)}, v \in {None, Angle(50)}}
        \ {NoOverride}

\* pc: "new" before TMatrix(...), "live" once it returned, "dead" if it raised
\* obj: the object; last: the kind of the last call and the exception it raised
\* user (ghost): the configuration as the user has specified it so far
\* nset (ghost): the setter calls that got past validation
\* dirty (ghost): some call raised after it had changed the object
Init ==
    /\ pc = "new"
    /\ obj = NoObject
    /\ user = NoObject
    /\ last = [kind |-> "none", err |-> OK]
    /\ nset = 0
    /\ dirty = FALSE

Construct ==
    /\ pc = "new"
    /\ \E a \in InitArgs :
         \E r \in {init(a)} :
             /\ pc' = IF r.err = OK THEN "live" ELSE "dead"
             /\ obj' = IF r.err = OK THEN r.o ELSE NoObject
             /\ user' = a
             /\ last' = [kind |-> "construct", err |-> r.err]
    /\ nset' = 0
    /\ UNCHANGED dirty

\* a read of a property; call is the frame the read leaves
DoRead(call) ==
    /\ pc = "live"
    /\ \E r \in {call} :
         /\ obj' = r.o
         /\ last' = [kind |-> "read", err |-> r.err]
         /\ dirty' = (dirty \/ (r.err # OK /\ r.o # obj))
    /\ UNCHANGED <<pc, user, nset>>

Read_S == DoRead(prop_S(Frame(obj)))

Read_Z == DoRead(prop_Z(Frame(obj)))

Read_SZ == DoRead(prop_SZ(Frame(obj)))

Read_Snorm == DoRead(prop_Snorm(Frame(obj)))

Read_Znorm == DoRead(prop_Znorm(Frame(obj)))

Read_dblquad == DoRead(prop_dblquad(Frame(obj)))

Read_ke == DoRead(prop_ke(Frame(obj)))

Read_ks == DoRead(prop_ks(Frame(obj)))

Read_ka == DoRead(prop_ka(Frame(obj)))

Read_omega == DoRead(prop_omega(Frame(obj)))

Read_kt == DoRead(prop_kt(Frame(obj)))

Read_QS == DoRead(prop_QS(Frame(obj)))

Read_QAS == DoRead(prop_QAS(Frame(obj)))

Read_QE == DoRead(prop_QE(Frame(obj)))

Read_I == DoRead(prop_I(Frame(obj)))

Call_compute_SZ ==
    /\ pc = "live"
    /\ \E ov \in OverrideInputs :
         \E r \in {compute_SZ(Frame(obj), ov)} :
             /\ obj' = r.o
             /\ last' = [kind |-> "query", err |-> r.err]
    /\ UNCHANGED <<pc, user, nset, dirty>>

\* a setter call; call is the frame it leaves, u the configuration as the user
\* has specified it once the call has written its field (a call rejected by
\* validation writes nothing)
DoSet(call, u) ==
    /\ pc = "live"
    /\ nset < MaxSets
    /\ \E r \in {call} :
         /\ obj' = r.o
         /\ last' = [kind |-> "set", err |-> r.err]
         /\ IF r.err # OK /\ r.calls = <<>>
            THEN UNCHANGED <<user, nset, dirty>>
            ELSE user' = u /\ nset' = nset + 1 /\ dirty' = (dirty \/ r.err # OK)
    /\ UNCHANGED pc

Set_frequency ==
    \E v \in FrequencyInputs : DoSet(set_frequency(Frame(obj), v), [user EXCEPT !.frequency = v])

Set_wavelength ==
    \E v \in WavelengthInputs : DoSet(set_wavelength(Frame(obj), v), [user EXCEPT !.frequency = 2 \div v])

Set_radius ==
    \E v \in RadiusInputs : DoSet(set_radius(Frame(obj), v), [user EXCEPT !.radius = v])

Set_radius_type ==
    \E v \in RadiusTypeInputs : DoSet(set_radius_type(Frame(obj), v), [user EXCEPT !.radius_type = v])

Set_axis_ratio ==
    \E v \in AxisRatioInputs : DoSet(set_axis_ratio(Frame(obj), v), [user EXCEPT !.axis_ratio = v])

Set_shape_volume ==
    \E v \in ShapeInputs : DoSet(set_shape_volume(Frame(obj), v), [user EXCEPT !.shape = v])

Set_eps ==
    \E v \in EpsInputs : DoSet(set_eps(Frame(obj), v), [user EXCEPT !.eps = v])

Set_orientation ==
    \E v \in OrientationInputs : \E lit \in LiteralInputs(v) :
        DoSet(set_orientation(Frame(obj), v, lit), [user EXCEPT !.orientation = v, !.orientation_literal = lit])

Set_orientation_pdf ==
    \E v \in PdfInputs : \E lit \in LiteralInputs(v) :
        DoSet(set_orientation_pdf(Frame(obj), v, lit),
              [user EXCEPT !.orientation_pdf = v, !.orientation_pdf_literal = lit])

Set_n_alpha ==
    \E v \in QuadratureInputs : DoSet(set_n_alpha(Frame(obj), v), [user EXCEPT !.n_alpha = v])

Set_n_beta ==
    \E v \in QuadratureInputs : DoSet(set_n_beta(Frame(obj), v), [user EXCEPT !.n_beta = v])

Next ==
    \/ Construct
    \/ Read_S \/ Read_Z \/ Read_SZ \/ Read_Znorm \/ Read_Snorm \/ Read_dblquad
    \/ Read_ke \/ Read_ks \/ Read_ka \/ Read_omega \/ Read_kt
    \/ Read_QS \/ Read_QAS \/ Read_QE \/ Read_I
    \/ Call_compute_SZ
    \/ Set_frequency \/ Set_wavelength \/ Set_radius \/ Set_radius_type \/ Set_axis_ratio
    \/ Set_shape_volume \/ Set_eps \/ Set_orientation \/ Set_orientation_pdf
    \/ Set_n_alpha \/ Set_n_beta

Spec == Init /\ [][Next]_vars

\* ---------------------------------------------------------------------------
\* Vocabulary of the properties
\* ---------------------------------------------------------------------------
Live == pc = "live"

\* the derived slots, and the truncation order
Slots == {"S", "Z", "Snorm", "Znorm", "dblZi", "XS", "XAS", "XE", "XI", "ke", "ks", "ka", "omega", "kt"}

\* the public properties that read a slot, and the slot each one stores
ReadNames == {"S", "Z", "Snorm", "Znorm", "dblquad", "QS", "QAS", "QE", "I", "ke", "kt", "omega", "ks", "ka"}

SlotOf(name) ==
    CASE name = "dblquad" -> "dblZi"
      [] name = "QS" -> "XS"
      [] name = "QAS" -> "XAS"
      [] name = "QE" -> "XE"
      [] name = "I" -> "XI"
      [] OTHER -> name

read(m, name) ==
    CASE name = "S" -> prop_S(m)
      [] name = "Z" -> prop_Z(m)
      [] name = "SZ" -> prop_SZ(m)
      [] name = "Snorm" -> prop_Snorm(m)
      [] name = "Znorm" -> prop_Znorm(m)
      [] name = "dblquad" -> prop_dblquad(m)
      [] name = "QS" -> prop_QS(m)
      [] name = "QAS" -> prop_QAS(m)
      [] name = "QE" -> prop_QE(m)
      [] name = "I" -> prop_I(m)
      [] name = "ke" -> prop_ke(m)
      [] name = "kt" -> prop_kt(m)
      [] name = "omega" -> prop_omega(m)
      [] name = "ks" -> prop_ks(m)
      [] name = "ka" -> prop_ka(m)

\* every setter call the model makes, as <<setter, value>>; an orientation
\* or orientation_pdf call as <<setter, value, literal>>
SetterCalls ==
    ({"frequency"} \X FrequencyInputs) \cup ({"wavelength"} \X WavelengthInputs)
    \cup ({"radius"} \X RadiusInputs) \cup ({"radius_type"} \X RadiusTypeInputs)
    \cup ({"axis_ratio"} \X AxisRatioInputs) \cup ({"shape_volume"} \X ShapeInputs)
    \cup ({"eps"} \X EpsInputs) \cup {c \in {"orientation"} \X OrientationInputs \X BOOLEAN : c[3] \in LiteralInputs(c[2])}
    \cup {c \in {"orientation_pdf"} \X PdfInputs \X BOOLEAN : c[3] \in LiteralInputs(c[2])}
    \cup ({"n_alpha"} \X QuadratureInputs) \cup ({"n_beta"} \X QuadratureInputs)

set(m, c) ==
    CASE c[1] = "frequency" -> set_frequency(m, c[2])
      [] c[1] = "wavelength" -> set_wavelength(m, c[2])
      [] c[1] = "radius" -> set_radius(m, c[2])
      [] c[1] = "radius_type" -> set_radius_type(m, c[2])
      [] c[1] = "axis_ratio" -> set_axis_ratio(m, c[2])
      [] c[1] = "shape_volume" -> set_shape_volume(m, c[2])
      [] c[1] = "eps" -> set_eps(m, c[2])
      [] c[1] = "orientation" -> set_orientation(m, c[2], c[3])
      [] c[1] = "orientation_pdf" -> set_orientation_pdf(m, c[2], c[3])
      [] c[1] = "n_alpha" -> set_n_alpha(m, c[2])
      [] c[1] = "n_beta" -> set_n_beta(m, c[2])

\* the object TMatrix(...) builds from the configuration the user has specified
Fresh == init(user)

\* reading the property on this object returns what reading it on the fresh
\* object returns
AsFresh(name) ==
    LET a == read(Frame(obj), name)
        b == read(Frame(Fresh.o), name)
    IN  a.err = OK /\ b.err = OK /\ a.ret = b.ret

\* ---------------------------------------------------------------------------
\* C1  Cache coherence: after any sequence of slot reads and successful setter
\* calls, every materialized derived slot, when read, equals what a freshly
\* constructed object with the final configuration returns for that slot.
\* ---------------------------------------------------------------------------
C1_CacheCoherence ==
    (Live /\ ~dirty /\ nset > 0) =>
        /\ Fresh.err = OK
        /\ \A name \in ReadNames : obj[SlotOf(name)] # None => AsFresh(name)

\* ---------------------------------------------------------------------------
\* C2  A setter is one atomic step: in the state a setter call leaves behind,
\* also when the call raised part-way, no materialized slot and no stored
\* truncation order holds a value computed from another configuration than
\* the current one.  Stated for the calls that raise after writing their field.
\* ---------------------------------------------------------------------------
C2_SetterAtomic ==
    (Live /\ last.kind = "set" /\ last.err # OK /\ nset > 0) =>
        /\ Fresh.err = OK
        /\ obj.nmax = Fresh.o.nmax
        /\ \A name \in ReadNames : obj[SlotOf(name)] # None => AsFresh(name)

\* ---------------------------------------------------------------------------
\* C3  Laziness: a slot that is None before a setter call is None after it.
\* ---------------------------------------------------------------------------
C3_UnmaterializedStaysNone ==
    [][(Live /\ last'.kind = "set") => \A s \in Slots : obj[s] = None => obj'[s] = None]_vars

\* a setter call has returned on an object with S/Z read and ke never read
C3_Witness ==
    Live /\ last.kind = "set" /\ last.err = OK /\ obj.S # None /\ obj.ke = None /\ obj.XS = None

\* the producer of each slot, as it is entered in a frame's calls
ProducerOf(slot) ==
    CASE slot \in {"S", "Z"} -> "compute_SZ"
      [] slot = "dblZi" -> "dblquad"
      [] slot = "XS" -> "QS"
      [] slot = "XAS" -> "QAS"
      [] slot = "XE" -> "QE"
      [] slot = "XI" -> "I"
      [] slot = "ke" -> "KE"
      [] slot = "kt" -> "KT"
      [] slot = "omega" -> "OMEGA"
      [] slot = "ks" -> "KS"
      [] slot = "ka" -> "KA"
      [] OTHER -> slot

Producers == {ProducerOf(s) : s \in Slots} \cup {"NMAX"}

Count(seq, x) == Cardinality({i \in DOMAIN seq : seq[i] = x})

\* where both occur, a occurs before b
Before(seq, a, b) ==
    \A i, j \in DOMAIN seq : (seq[i] = a /\ seq[j] = b) => i < j

\* ---------------------------------------------------------------------------
\* C4  Read contract of every derived slot: the first read invokes the slot's
\* producer and stores the result; every later read with no setter call in
\* between returns the stored value without invoking the producer or a kernel.
\* A first read is required to return in the mode the pipeline supports ('S').
\* ---------------------------------------------------------------------------
ReadContract(name) ==
    LET slot == SlotOf(name)
        a == read(Frame(obj), name)
        b == read(Frame(a.o), name)
    IN  /\ obj.orient = "S" => a.err = OK
        /\ a.err = OK =>
            /\ obj[slot] = None => (a.o[slot] # None /\ Count(a.calls, ProducerOf(slot)) = 1)
            /\ b.err = OK /\ b.calls = <<>> /\ b.ret = a.ret /\ b.o = a.o

C4_ReadContract == Live => \A name \in ReadNames : ReadContract(name)

\* ---------------------------------------------------------------------------
\* C5  On every successful setter call the truncation order is recomputed
\* first, then exactly the slots that were non-None, each producer once, S/Z
\* before their consumers, ke before kt, ks and omega, ks and omega before
\* ka, QS before QAS and omega.
\* ---------------------------------------------------------------------------
C5_RefreshOrder ==
    Live => \A c \in SetterCalls :
        LET r == set(Frame(obj), c)
            P == SelectSeq(r.calls, LAMBDA x : x \in Producers)
        IN  r.err = OK =>
                /\ P # <<>> /\ P[1] = "NMAX" /\ Count(P, "NMAX") = 1
                /\ \A s \in Slots : Count(P, ProducerOf(s)) = IF obj[s] # None THEN 1 ELSE 0
                /\ \A q \in Producers \ {"NMAX", "compute_SZ"} : Before(P, "compute_SZ", q)
                /\ \A q \in {"KT", "KS", "OMEGA"} : Before(P, "KE", q)
                /\ Before(P, "KS", "KA") /\ Before(P, "OMEGA", "KA")
                /\ Before(P, "QS", "QAS") /\ Before(P, "QS", "OMEGA")

\* ---------------------------------------------------------------------------
\* C6  With radius type 'M' the radius handed to the truncation-order kernel
\* is the user's maximum radius converted to volume-equivalent exactly once,
\* with radius type volume-equivalent; for the other radius types the stored
\* radius and type are passed unchanged.
\* ---------------------------------------------------------------------------
C6_MaximumRadiusConvertedOnce ==
    (Live /\ last.kind \in {"construct", "set"} /\ last.err = OK) =>
        IF obj.radius_type = param_radius_type.M
        THEN /\ obj.nmax.radius = equal_volume_from_maximum_wrapper(Radius(user.radius), obj.axis_ratio,
                                                                    obj.shape_volume)
             /\ obj.nmax.radius_type = param_radius_type.REV
        ELSE /\ obj.nmax.radius = obj.radius
             /\ obj.nmax.radius_type = obj.radius_type

\* ---------------------------------------------------------------------------
\* C7  compute_SZ with explicit angle overrides is a pure query: it leaves the
\* object unchanged, and a second call with the same overrides returns the
\* same result.
\* ---------------------------------------------------------------------------
C7_ComputeSZPure ==
    Live => \A ov \in OverrideInputs :
        LET r == compute_SZ(Frame(obj), ov)
        IN  /\ r.o = obj
            /\ r.err = OK => compute_SZ(Frame(r.o), ov) = r

\* compute_SZ has returned on an object whose S/Z and ke are stored
C7_Witness ==
    Live /\ last.kind = "query" /\ last.err = OK /\ obj.S # None /\ obj.ke # None

\* ---------------------------------------------------------------------------
\* C8  S and Z are cached as one unit: S is None iff Z is None, and when
\* stored both come from the same kernel invocation.
\* ---------------------------------------------------------------------------
C8_SZOneUnit ==
    Live => /\ (obj.S = None) <=> (obj.Z = None)
            /\ obj.S # None => obj.S.a = obj.Z.a

\* a setter call has refreshed the stored S and Z under a new wavelength
C8_Witness ==
    Live /\ last.kind = "set" /\ last.err = OK /\ obj.S # None /\ obj.Z # None /\ obj.wavelength = 1

\* ---------------------------------------------------------------------------
\* C9  An unknown radius type, shape or orientation is rejected at once: by
\* the constructor before any alignment or kernel call, by the setter before
\* any field is written, leaving the object as it was.
\* ---------------------------------------------------------------------------
UnknownEnum(a) ==
    \/ a.radius_type \notin DOMAIN param_radius_type
    \/ a.shape \notin DOMAIN param_shape
    \/ a.orientation \notin param_orientation

C9_UnknownEnumRejected ==
    /\ \A a \in InitArgs : UnknownEnum(a) => (init(a).err = "ValueError" /\ init(a).calls = <<>>)
    /\ Live => \A c \in ({"radius_type", "shape_volume"} \X {"XX"}) \cup {<<"orientation", "XX", TRUE>>} :
                   set(Frame(obj), c) = Raise(Frame(obj), "ValueError")
    /\ (Live /\ last.kind = "set" /\ nset = 0) => last.err \in {"ValueError", "AssertionError"}

\* a setter call was rejected on an object with stored slots
C9_Witness ==
    Live /\ last.kind = "set" /\ last.err = "ValueError" /\ nset = 0 /\ obj.S # None /\ obj.ke # None

\* ---------------------------------------------------------------------------
\* C10  'AA' is accepted by the constructor and by the orientation setter,
\* but every invocation of the matrix pipeline in that mode fails, and a read
\* that fails so leaves S and Z as they were (None).
\* ---------------------------------------------------------------------------
C10_AveragedAdaptive ==
    /\ \A a \in InitArgs : (~UnknownEnum(a) /\ a.orientation = "AA" /\ a.orientation_pdf # "psd") =>
           (init(a).err = OK /\ init(a).o.orient = "AA")
    /\ Live => LET r == set_orientation(Frame(obj), "AA", TRUE)
               IN  r.o.orient = "AA" /\ r.calls # <<>>
    /\ (Live /\ obj.orient = "AA") =>
           /\ \A ov \in OverrideInputs \cup {NoOverride} : compute_SZ(Frame(obj), ov).err = "ValueError"
           /\ \A name \in ReadNames \cup {"SZ"} :
                  LET a == read(Frame(obj), name)
                  IN  (\E i \in DOMAIN a.calls : a.calls[i] \in {"compute_SZ", "compute_SZ(override)"}) =>
                          (a.err = "ValueError" /\ a.o.S = obj.S /\ a.o.Z = obj.Z)
           /\ obj.S = None =>
                  \A name \in {"S", "Z", "SZ", "ke", "I"} :
                      LET a == read(Frame(obj), name)
                      IN  a.err = "ValueError" /\ a.o.S = None /\ a.o.Z = None
           /\ obj.XE = None =>
                  LET a == read(Frame(obj), "QE")
                  IN  a.err = "ValueError" /\ a.o.S = obj.S /\ a.o.Z = obj.Z /\ a.o.XE = None

\* a read has failed in mode 'AA' and S and Z are None
C10_Witness ==
    Live /\ obj.orient = "AA" /\ last.kind = "read" /\ last.err = "ValueError" /\ obj.S = None /\ obj.Z = None

\* ---------------------------------------------------------------------------
\* C11  In mode 'AF' the matrix pipeline works: compute_SZ, and the reads of
\* S, Z, the hemispherical integral and the scattering and asymmetry cross
\* sections, return without error after calling the orientation-averaged
\* kernel, on an object that holds the configured orientation PDF.
\* ---------------------------------------------------------------------------
C11_AveragedFixed ==
    (Live /\ obj.orient = "AF") =>
        /\ LET a == compute_SZ(Frame(obj), NoOverride)
           IN  a.err = OK /\ Count(a.calls, "SZ_AF_VEC_WRAPPER") = 1
        /\ \A name \in {"S", "Z", "dblquad", "QS", "QAS"} :
               obj[SlotOf(name)] = None => read(Frame(obj), name).err = OK

\* ---------------------------------------------------------------------------
\* C12  In normalization mode a materialized Snorm or Znorm is the whole
\* trailing block of the S or Z the object stores now; so after a setter
\* call that recomputed S and Z it has been recomputed from the new S and Z.
\* ---------------------------------------------------------------------------
C12_NormOfCurrentSZ ==
    (Live /\ obj.normalize /\ ~dirty) =>
        /\ obj.Znorm # None => (obj.Znorm = norm_copy(obj.Z) /\ obj.Znorm.copied = 16)
        /\ obj.Snorm # None => (obj.Snorm = norm_copy(obj.S) /\ obj.Snorm.copied = 16)

\* ---------------------------------------------------------------------------
\* C13  With normalize False a read of Snorm or Znorm returns None, invokes
\* no producer and no kernel, and leaves every slot, and the whole object,
\* as it was.
\* ---------------------------------------------------------------------------
C13_NormNoneWhenOff ==
    (Live /\ ~obj.normalize) =>
        \A name \in {"Snorm", "Znorm"} :
            LET a == read(Frame(obj), name)
            IN  a.err = OK /\ a.ret = None /\ a.calls = <<>> /\ a.o = obj

\* a read has returned on an object built with normalize False and every slot
\* is still None: the read was one of Snorm or Znorm
C13_Witness ==
    Live /\ ~obj.normalize /\ last.kind = "read" /\ last.err = OK /\ \A s \in Slots : obj[s] = None

\* ---------------------------------------------------------------------------
\* C14  QE comes from one separate evaluation of the scattering matrices with
\* the viewing zenith and azimuth set to the incidence zenith and azimuth;
\* the evaluation is not stored: a read of QE leaves S and Z None when they
\* were None and unchanged when they were materialized, and the S that QE is
\* computed from is not the stored one.
\* ---------------------------------------------------------------------------
C14_QEBackscatterUnstored ==
    Live =>
        LET a == read(Frame(obj), "QE")
            S == SZ_S_VEC_WRAPPER(obj.nmax, obj.wavelength, obj.izaDeg, obj.izaDeg, obj.iaaDeg, obj.iaaDeg,
                                  obj.alphaDeg, obj.betaDeg).S
        IN  /\ a.o.S = obj.S /\ a.o.Z = obj.Z
            /\ (obj.XE = None /\ a.err = OK) =>
                   /\ a.o.XE = XSEC_QE_WRAPPER(S, obj.wavelength)
                   /\ Count(a.calls, "compute_SZ(override)") = 1
                   /\ Count(a.calls, "compute_SZ") = 0
                   /\ Count(a.calls, "SZ_S_VEC_WRAPPER") = 1
                   /\ obj.S # None => a.o.XE.S # obj.S

\* a read of QE has returned and S and Z are still None
C14_Witness ==
    Live /\ last.kind = "read" /\ last.err = OK /\ obj.XE # None /\ obj.S = None /\ obj.Z = None

\* ---------------------------------------------------------------------------
\* C15  Single-scattering-albedo identity: in every state in which ke, ks and
\* omega are all materialized, omega equals ks / ke elementwise.
\* ---------------------------------------------------------------------------
C15_AlbedoIdentity ==
    (Live /\ obj.ke # None /\ obj.ks # None /\ obj.omega # None) =>
        ks_over_ke(obj.ks, obj.ke) = obj.omega

\* the three are materialized and a setter call has recomputed them at another wavelength
C15_Witness ==
    /\ Live /\ obj.ke # None /\ obj.ks # None /\ obj.omega # None
    /\ last.kind = "set" /\ last.err = OK /\ obj.wavelength # EMW_wavelength(Defaults.frequency)

\* two frames that differ in nothing but the stored radius type
SameUpToRadiusType(a, b) ==
    /\ a.err = b.err /\ a.ret = b.ret /\ a.calls = b.calls
    /\ (a.o = NoObject \/ b.o = NoObject) => a.o = b.o
    /\ (a.o # NoObject /\ b.o # NoObject) => [a.o EXCEPT !.radius_type = 1] = [b.o EXCEPT !.radius_type = 1]

IsSphere(o) == o.shape_volume = param_shape.SPH /\ o.axis_ratio = 1

\* the setter calls that leave a sphere a sphere of the radius type it has
SphereSetterCalls ==
    {c \in SetterCalls : /\ c[1] # "radius_type"
                         /\ c[1] = "axis_ratio" => c[2] = 1
                         /\ c[1] = "shape_volume" => c[2] = "SPH"}

MaxLen == 3

MaxSetsLen == 2

LenInputs == 1 .. MaxLen

MaxOf(lens) == CHOOSE l \in lens : \A k \in lens : k <= l

\* respy.align_all: every input repeated to the common length, the longest;
\* two inputs of different lengths, both longer than 1, do not align
align_all_mismatch(lens) == \E l \in lens : l # 1 /\ l # MaxOf(lens)

\* Angles.__init__: normalize appends the sample (iza = nbar, vza = 0) to the angle arrays
Angles_len(L, normalize) == IF normalize THEN L + 1 ELSE L

\* Angles.align_with / EMW.align_with: the array repeated to the length of the
\* arrays of the object it is aligned with
align_with(self_len, l) == IF l > self_len THEN l ELSE self_len

\* numpy broadcasting of two one-dimensional arrays
broadcast_mismatch(a, b) == a # b /\ a # 1 /\ b # 1

\* __NMAX: the radius handed to the kernel is as long as iza (maximum radius)
\* or the stored radius; the kernel returns one order per radius and the
\* radius is stored back
NMAX_len(o) ==
    LET radius == IF o.maximum THEN o.angles ELSE o.radius
    IN  [o EXCEPT !.radius = radius, !.nmax = radius]

\* __init__: a gives the length of iza (the other angles are scalars), of
\* frequency, of eps and of N, normalize, and whether radius_type is 'M'
init_len(a) ==
    LET lens == {a.iza, a.frequency, a.eps, a.N}
        L == MaxOf(lens)
        angles == Angles_len(L, a.normalize)
        par == IF a.normalize THEN align_with(angles, L) ELSE L
        epsl == IF a.normalize THEN align_with(angles, a.eps) ELSE L
    IN  IF align_all_mismatch(lens)
        THEN [err |-> "AssertionError", o |-> NoObject]
        ELSE [err |-> OK,
              o |-> NMAX_len([angles |-> angles, wavelength |-> par, k0 |-> par, radius |-> par,
                              axis_ratio |-> par, epsr |-> epsl, epsi |-> epsl, N |-> L, nmax |-> 0,
                              normalize |-> a.normalize, maximum |-> a.maximum])]

\* the part the array setters share: value and the stored radius, axis
\* ratio and permittivity aligned with the angles
setter_align(o, value) ==
    [o EXCEPT !.radius = align_with(o.angles, @), !.axis_ratio = align_with(o.angles, @),
              !.epsr = align_with(o.angles, @), !.epsi = align_with(o.angles, @)]

\* frequency.setter / wavelength.setter
set_frequency_len(o, value) ==
    LET v == align_with(o.angles, value)
    IN  NMAX_len([setter_align(o, value) EXCEPT !.wavelength = v, !.k0 = v])

\* radius.setter
set_radius_len(o, value) ==
    LET v == align_with(o.wavelength, align_with(o.angles, value))
    IN  NMAX_len([setter_align(o, value) EXCEPT !.wavelength = v, !.k0 = v, !.radius = v])

\* eps.setter
set_eps_len(o, value) ==
    LET v == align_with(o.wavelength, align_with(o.angles, value))
    IN  NMAX_len([setter_align(o, value) EXCEPT !.wavelength = v, !.k0 = v, !.epsr = v, !.epsi = v])

\* factor: (2 * PI * N * 1j) / k0
factor_len(o) ==
    IF broadcast_mismatch(o.N, o.k0)
    THEN [err |-> "ValueError", ret |-> 0]
    ELSE [err |-> OK, ret |-> MaxOf({o.N, o.k0})]

InitArgsLen ==
    [iza : LenInputs, frequency : LenInputs, eps : LenInputs, N : LenInputs,
     normalize : BOOLEAN, maximum : BOOLEAN]

InitLen ==
    /\ pc = "new"
    /\ obj = NoObject
    /\ user = NoObject
    /\ last = [kind |-> "none", err |-> OK]
    /\ nset = 0
    /\ dirty = FALSE

ConstructLen ==
    /\ pc = "new"
    /\ \E a \in InitArgsLen :
         \E r \in {init_len(a)} :
             /\ pc' = IF r.err = OK THEN "live" ELSE "dead"
             /\ obj' = r.o
             /\ user' = a
             /\ last' = [kind |-> "construct", err |-> r.err]
    /\ UNCHANGED <<nset, dirty>>

\* a setter call with a scalar or an array as long as the object's arrays
DoSetLen(o) ==
    /\ nset < MaxSetsLen
    /\ obj' = o
    /\ nset' = nset + 1
    /\ last' = [kind |-> "set", err |-> OK]
    /\ UNCHANGED <<pc, user, dirty>>

SetLen_frequency ==
    pc = "live" /\ \E v \in {1, obj.angles} : DoSetLen(set_frequency_len(obj, v))

SetLen_radius ==
    pc = "live" /\ \E v \in {1, obj.angles} : DoSetLen(set_radius_len(obj, v))

SetLen_eps ==
    pc = "live" /\ \E v \in {1, obj.angles} : DoSetLen(set_eps_len(obj, v))

ReadLen_factor ==
    /\ pc = "live"
    /\ last' = [kind |-> "read", err |-> factor_len(obj).err]
    /\ UNCHANGED <<pc, obj, user, nset, dirty>>

NextLen ==
    \/ ConstructLen
    \/ SetLen_frequency \/ SetLen_radius \/ SetLen_eps
    \/ ReadLen_factor

SpecLen == InitLen /\ [][NextLen]_vars

\* ---------------------------------------------------------------------------
\* C17  Common-length invariant: after construction, with normalize False or
\* True, and after every setter call, the angle arrays, wavelength and k0,
\* radius, axis ratio, real and imaginary permittivity, N and the truncation
\* order all have one length, and factor = 2*pi*N*i/k0 is defined.
\* ---------------------------------------------------------------------------
C17_CommonLength ==
    Live =>
        /\ \A f \in {"wavelength", "k0", "radius", "axis_ratio", "epsr", "epsi", "N", "nmax"} :
               obj[f] = obj.angles
        /\ factor_len(obj).err = OK

\* ===========================================================================
\* I2EM: the surface backscatter series, a single computation at construction
\* ===========================================================================
\* A third state machine over the same variables: obj is the I2EM object,
\* user the constructor arguments together with what the external stages of
\* pyrism.soil.I2EM.core returned, last the outcome and the stages called.
MaxTs == 3

CorrfuncInputs == {"exponential", "gaussian", "xpower", "mixed", "XX"}

\* the families __init__ names
param_corrfunc == {"exponential", "gaussian", "xpower", "mixed"}

\* scipy.misc.factorial
RECURSIVE factorial(_)
factorial(n) == IF n <= 1 THEN 1 ELSE n * factorial(n - 1)

\* the values a stage returns: a series has MaxTs entries, of which the first
\* Ts are summed; spectrum values are multiples of MaxTs! so that Wn / i! is exact
SpectrumInputs == {0, factorial(MaxTs)}

FieldInputs == {-1, 2}

SeriesOf(values) == [1 .. MaxTs -> values]

\* k = 2 * np.pi * frequency / 30, kept as the fraction num * pi / den
wavenumber(frequency) == [num |-> 2 * frequency, den |-> 30]

\* kz_iza = k * np.cos(iza + 0.01) and kz_vza = k * np.cos(vza)
kz(k, angle, plus) == [k |-> k, cos |-> angle, plus |-> plus]

\* np.abs(x) ** 2 of a real entry
abs2(x) == x * x

\* a correlation function of core
core(name) == [k |-> "function", name |-> name]

\* variant of the selection whose else branch takes the exponential family
select_corrfunc_default(a) ==
    IF a.corrfunc \in param_corrfunc /\ a.corrfunc_literal THEN core(a.corrfunc) ELSE core("exponential")

\* if corrfunc is 'exponential': ... elif ...: the function selected, None for
\* the else branch; `is` holds for the object of the literal only
select_corrfunc(a) ==
    IF a.corrfunc \in param_corrfunc /\ a.corrfunc_literal THEN core(a.corrfunc) ELSE None

\* variant of the loop that stops one term early
RECURSIVE sigma_loop_short(_, _, _, _, _, _)
sigma_loop_short(i, Ts, Wn, Ipp, sigma, acc) ==
    IF i >= Ts THEN acc
    ELSE sigma_loop_short(i + 1, Ts, Wn, Ipp, sigma,
                          acc + abs2(Ipp[i]) * ((Wn[i] \div factorial(i)) * sigma ^ (2 * i)))

\* variant of the loop whose term i carries sigma ** (2 * (i - 1))
RECURSIVE sigma_loop_power(_, _, _, _, _, _)
sigma_loop_power(i, Ts, Wn, Ipp, sigma, acc) ==
    IF i > Ts THEN acc
    ELSE sigma_loop_power(i + 1, Ts, Wn, Ipp, sigma,
                          acc + abs2(Ipp[i]) * ((Wn[i] \div factorial(i))
                                                * (IF i = 1 THEN 1 ELSE sigma ^ (2 * (i - 1)))))

\* for i in srange(Ts): i += 1; a0 = Wn[i - 1] / factorial(i) * sigma ** (2 * i);
\* sigmapp = sigmapp + np.abs(Ipp[i - 1]) ** 2 * a0   (iterations i .. Ts; the
\* 0-based entry i - 1 is entry i of the sequence)
RECURSIVE sigma_loop(_, _, _, _, _, _)
sigma_loop(i, Ts, Wn, Ipp, sigma, acc) ==
    IF i > Ts THEN acc
    ELSE sigma_loop(i + 1, Ts, Wn, Ipp, sigma,
                    acc + abs2(Ipp[i]) * ((Wn[i] \div factorial(i)) * sigma ^ (2 * i)))

\* sigmapp * ShdwS * k ** 2 / 2 * np.exp(-sigma ** 2 * (kz_iza ** 2 + kz_vza ** 2)):
\* the number num * pi^2 / den * exp(-sigma^2 * (kz_iza^2 + kz_vza^2))
linear(sigmapp, ShdwS, k, kz_iza, kz_vza, sigma) ==
    [num |-> sigmapp * ShdwS * k.num * k.num, den |-> 2 * k.den * k.den,
     exp |-> [sigma |-> sigma, kz_iza |-> kz_iza, kz_vza |-> kz_vza]]

\* core.dB: 10 * log10(x) of a positive x, nan of any other
dB(x) ==
    IF x.num > 0 THEN [k |-> "dB", of |-> x] ELSE [k |-> "nan"]

\* what numpy does about the floating-point error of dB(x): under
\* np.errstate(invalid='ignore') nothing, under the state a program starts
\* with ('warn') it issues a RuntimeWarning
signals(x, invalid) ==
    IF x.num <= 0 /\ invalid = "warn" THEN <<"RuntimeWarning">> ELSE <<>>

\* __sigma_nought
sigma_nought(Ts, Wn, Ivv, Ihh, ShdwS, k, kz_iza, kz_vza, sigma) ==
    LET VV == linear(sigma_loop(1, Ts, Wn, Ivv, sigma, 0), ShdwS, k, kz_iza, kz_vza, sigma)
        HH == linear(sigma_loop(1, Ts, Wn, Ihh, sigma, 0), ShdwS, k, kz_iza, kz_vza, sigma)
    IN  [VV |-> VV, HH |-> HH, VVdB |-> dB(VV), HHdB |-> dB(HH),
         signals |-> signals(VV, "ignore") \o signals(HH, "ignore")]

\* core.BRDF and core.BRF
BRDF(x, iza, vza) == [num |-> x.num, den |-> x.den, exp |-> x.exp, over_cos |-> vza]

BRF(x) == [num |-> x.num, den |-> x.den, exp |-> x.exp, over_cos |-> x.over_cos, times_pi |-> TRUE]

RECURSIVE CallAll(_, _)
CallAll(m, names) == IF names = <<>> THEN m ELSE CallAll(Call(m, Head(names)), Tail(names))

\* core.ReflectanceResult
ReflectanceResult(VV, HH) == [VV |-> VV, HH |-> HH, VVdB |-> dB(VV), HHdB |-> dB(HH)]

\* variant of __store that converts under np.errstate(invalid='ignore')
store_ignore(m) ==
    LET o == m.o
        brdf == ReflectanceResult(BRDF(o.VV, o.iza, o.vza), BRDF(o.HH, o.iza, o.vza))
        brf == ReflectanceResult(BRF(brdf.VV), BRF(brdf.HH))
        m1 == CallAll(Call(m, "store"),
                      signals(o.VV, "ignore") \o signals(o.HH, "ignore")
                      \o signals(brdf.VV, "ignore") \o signals(brdf.HH, "ignore")
                      \o signals(brf.VV, "ignore") \o signals(brf.HH, "ignore"))
    IN  [m1 EXCEPT !.o.BSC = ReflectanceResult(o.VV, o.HH), !.o.BRDF = brdf, !.o.BRF = brf]

\* __store: the dB conversions of BSC, BRDF and BRF run under the error state
\* of the caller of I2EM(...)
store(m) ==
    LET o == m.o
        brdf == ReflectanceResult(BRDF(o.VV, o.iza, o.vza), BRDF(o.HH, o.iza, o.vza))
        brf == ReflectanceResult(BRF(brdf.VV), BRF(brdf.HH))
        m1 == CallAll(Call(m, "store"),
                      signals(o.VV, "warn") \o signals(o.HH, "warn")
                      \o signals(brdf.VV, "warn") \o signals(brdf.HH, "warn")
                      \o signals(brf.VV, "warn") \o signals(brf.HH, "warn"))
    IN  [m1 EXCEPT !.o.BSC = ReflectanceResult(o.VV, o.HH), !.o.BRDF = brdf, !.o.BRF = brf]

\* variant of the calls that evaluates the roughness spectrum first, for the
\* full series, before the reflection-coefficient stage has returned Ts
Stages_spectrum_first(corrfunc, Ts) ==
    <<corrfunc, ToString(MaxTs), "reflection_coefficients", "r_transition", ToString(Ts), "Ra_integration",
      "biStatic_coefficient", "Ipp", ToString(Ts), "shadowing_function", "sigma_nought", ToString(Ts)>>

\* the calls of __init__ from the reflection-coefficient stage, which returns
\* Ts, to __sigma_nought, in its order; the second is the selected correlation
\* function; a call that is given Ts is followed by the Ts it is given
Stages(corrfunc, Ts) ==
    <<"reflection_coefficients", corrfunc, ToString(Ts), "r_transition", ToString(Ts), "Ra_integration",
      "biStatic_coefficient", "Ipp", ToString(Ts), "shadowing_function", "sigma_nought", ToString(Ts)>>

\* I2EM.__init__: a the arguments, e what the stages return
I2EM_init(a, e) ==
    LET blank == [iza |-> a.iza, vza |-> a.vza, corrfunc |-> None, sigma |-> None, k |-> None,
                  VV |-> None, HH |-> None, VVdB |-> None, HHdB |-> None,
                  BSC |-> None, BRDF |-> None, BRF |-> None]
        m0 == Call(Frame(blank), "Kernel.__init__")
        f == select_corrfunc(a)
        k == wavenumber(a.frequency)
    IN  IF f = None
        THEN Raise(m0, "ValueError")
        ELSE Value({store([m1 EXCEPT !.o.corrfunc = f, !.o.sigma = a.sigma, !.o.k = k,
                                     !.o.VV = r.VV, !.o.HH = r.HH, !.o.VVdB = r.VVdB, !.o.HHdB = r.HHdB]) :
                    <<m1, r>> \in {<<CallAll(m0, Stages(f.name, e.Ts) \o r0.signals), r0>> :
                                   r0 \in {sigma_nought(e.Ts, e.Wn, e.Ivv, e.Ihh, e.ShdwS, k,
                                                        kz(k, a.iza, "0.01"), kz(k, a.vza, "0"), a.sigma)}}})

InitArgsI2EM ==
    {[iza |-> Angle(30), vza |-> Angle(40), frequency |-> 1, sigma |-> s, corrfunc |-> c, corrfunc_literal |-> lit] :
        s \in 0 .. 2, c \in CorrfuncInputs, lit \in BOOLEAN}

StageOutputs ==
    [Ts : 0 .. MaxTs, Wn : SeriesOf(SpectrumInputs), Ivv : SeriesOf(FieldInputs),
     Ihh : {[i \in 1 .. MaxTs |-> 2], [i \in 1 .. MaxTs |-> i - 2]}, ShdwS : {0, 1}]

InitI2EM ==
    /\ pc = "new"
    /\ obj = NoObject
    /\ user = NoObject
    /\ last = [kind |-> "none", err |-> OK, calls |-> <<>>]
    /\ nset = 0
    /\ dirty = FALSE

ConstructI2EM ==
    /\ pc = "new"
    /\ \E a \in InitArgsI2EM : \E e \in StageOutputs :
         \E r \in {I2EM_init(a, e)} :
             /\ pc' = IF r.err = OK THEN "live" ELSE "dead"
             /\ obj' = r.o
             /\ user' = [a |-> a, e |-> e]
             /\ last' = [kind |-> "construct", err |-> r.err, calls |-> r.calls]
    /\ UNCHANGED <<nset, dirty>>

\* a read of the BSC result of a constructed object
ReadI2EM_BSC ==
    /\ pc = "live"
    /\ last.kind = "construct"
    /\ last' = [kind |-> "read", err |-> OK, calls |-> <<>>]
    /\ UNCHANGED <<pc, obj, user, nset, dirty>>

NextI2EM == ConstructI2EM \/ ReadI2EM_BSC

SpecI2EM == InitI2EM /\ [][NextI2EM]_vars

\* ===========================================================================
\* A fourth state machine over the same variables: obj is the I2EM.Emissivity
\* object, user the constructor arguments together with what scipy's dblquad
\* and numpy returned, last the outcome and the calls made.

\* fr = self.freq / 1e9; self.k = 2 * np.pi * fr / 30, kept as the fraction
\* num * pi / (den * over): the divisor of fr is kept apart from the 30
wavenumber_ems(frequency) ==
    LET fr == [num |-> frequency, den |-> 10 ^ 9]
    IN  [num |-> 2 * fr.num, den |-> 30, over |-> fr.den]

\* if corrfunc is 'exponential': ... elif corrfunc is 'gaussian': ... elif
\* corrfunc is 'mixed': ...: the function selected, None for the else branch
select_corrfunc_ems(a) ==
    IF a.corrfunc \in {"exponential", "gaussian", "mixed"} /\ a.corrfunc_literal
    THEN [k |-> "function", name |-> a.corrfunc, ems |-> TRUE]
    ELSE None

\* Emissivity.__calc: e.refv and e.refh are the integrals dblquad returns,
\* e.coh the value numpy gives np.exp(-ks ** 2 * cos(iza) ** 2) * abs(r) ** 2
calc(m, iza, k, kl, ks, corrfunc, e) ==
    LET VV == [num |-> 1 - e.refv - e.coh, ks |-> ks, iza |-> iza, r |-> "rv"]
        HH == [num |-> 1 - e.refh - e.coh, ks |-> ks, iza |-> iza, r |-> "rh"]
        m1 == CallAll(m, <<"dblquad", "vv", corrfunc.name, "dblquad", "hh", corrfunc.name>>
                         \o signals(VV, "ignore") \o signals(HH, "ignore"))
    IN  Return(m1, [VV |-> VV, HH |-> HH, VVdB |-> dB(VV), HHdB |-> dB(HH)])

\* I2EM.Emissivity.__init__: a the arguments, e what dblquad and numpy return
Emissivity_init(a, e) ==
    LET blank == [iza |-> a.iza, corrfunc |-> None, corrlength |-> None, sigma |-> None, freq |-> None,
                  k |-> None, VV |-> None, HH |-> None, VVdB |-> None, HHdB |-> None, EMS |-> None]
        m0 == Call(Frame(blank), "Kernel.__init__")
        f == select_corrfunc_ems(a)
        k == wavenumber_ems(a.frequency)
        ks == [k |-> k, times |-> a.sigma]
        kl == [k |-> k, times |-> a.corrlength]
    IN  IF f = None
        THEN Raise(m0, "ValueError")
        ELSE Value({Return(CallAll([r EXCEPT !.o.corrfunc = f, !.o.corrlength = a.corrlength,
                                             !.o.sigma = a.sigma, !.o.freq = a.frequency, !.o.k = k,
                                             !.o.VV = r.ret.VV, !.o.HH = r.ret.HH,
                                             !.o.VVdB = r.ret.VVdB, !.o.HHdB = r.ret.HHdB,
                                             !.o.EMS = [VV |-> r.ret.VV, HH |-> r.ret.HH,
                                                        VVdB |-> dB(r.ret.VV), HHdB |-> dB(r.ret.HH)]],
                                      <<"EmissivityResult">> \o signals(r.ret.VV, "warn")
                                      \o signals(r.ret.HH, "warn")),
                              None) :
                    r \in {calc(m0, a.iza, k, kl, ks, f, e)}})

InitArgsEms ==
    {[iza |-> Angle(30), frequency |-> fq, sigma |-> s, corrlength |-> 10, corrfunc |-> c, corrfunc_literal |-> lit] :
        fq \in 1 .. 2, s \in 0 .. 1, c \in CorrfuncInputs, lit \in BOOLEAN}

IntegralOutputs == [refv : {0, 1}, refh : {0, 1}, coh : {0, 1}]

ConstructEms ==
    /\ pc = "new"
    /\ \E a \in InitArgsEms : \E e \in IntegralOutputs :
         \E r \in {Emissivity_init(a, e)} :
             /\ pc' = IF r.err = OK THEN "live" ELSE "dead"
             /\ obj' = r.o
             /\ user' = [a |-> a, e |-> e]
             /\ last' = [kind |-> "construct", err |-> r.err, calls |-> r.calls]
    /\ UNCHANGED <<nset, dirty>>

\* a read of the EMS result of a constructed object
ReadEms_EMS ==
    /\ pc = "live"
    /\ last.kind = "construct"
    /\ last' = [kind |-> "read", err |-> OK, calls |-> <<>>]
    /\ UNCHANGED <<pc, obj, user, nset, dirty>>

NextEms == ConstructEms \/ ReadEms_EMS

SpecEms == InitI2EM /\ [][NextEms]_vars

\* term i of the series: |I_pp[i]|^2 * Wn[i] / i! * sigma^(2i)
SeriesTerm(Ipp, Wn, sigma, i) == (abs2(Ipp[i]) * Wn[i] * sigma ^ (2 * i)) \div factorial(i)

RECURSIVE SeriesSum(_, _, _, _)
SeriesSum(orders, Ipp, Wn, sigma) ==
    IF orders = {} THEN 0
    ELSE LET i == CHOOSE x \in orders : TRUE
         IN  SeriesTerm(Ipp, Wn, sigma, i) + SeriesSum(orders \ {i}, Ipp, Wn, sigma)

\* sum * shadowing * k^2 / 2 * exp(-sigma^2 (kz_i^2 + kz_v^2)), with k = 2 pi f / 30
Backscatter(sum, a, e) ==
    [num |-> sum * e.ShdwS * (2 * a.frequency) * (2 * a.frequency), den |-> 2 * 30 * 30,
     exp |-> [sigma |-> a.sigma, kz_iza |-> kz(wavenumber(a.frequency), a.iza, "0.01"),
              kz_vza |-> kz(wavenumber(a.frequency), a.vza, "0")]]

\* ---------------------------------------------------------------------------
\* C18  The backscatter coefficient of each polarization is the sum of exactly
\* the terms i = 1..Ts, term i being |I_pp[i]|^2 * Wn[i] / i! * sigma^(2i),
\* multiplied once by the shadowing factor, k^2/2 and
\* exp(-sigma^2 (kz_i^2 + kz_v^2)); with Ts = 0 it is 0.
\* ---------------------------------------------------------------------------
C18_SeriesOfTsTerms ==
    Live =>
        /\ obj.VV = Backscatter(SeriesSum(1 .. user.e.Ts, user.e.Ivv, user.e.Wn, user.a.sigma), user.a, user.e)
        /\ obj.HH = Backscatter(SeriesSum(1 .. user.e.Ts, user.e.Ihh, user.e.Wn, user.a.sigma), user.a, user.e)
        /\ user.e.Ts = 0 => (obj.VV.num = 0 /\ obj.HH.num = 0)

\* an object built from series longer than Ts, every entry and factor nonzero
C18_Witness ==
    /\ Live /\ user.e.Ts = MaxTs - 1 /\ user.a.sigma = 2 /\ user.e.ShdwS = 1
    /\ \A i \in 1 .. MaxTs : user.e.Wn[i] # 0
    /\ obj.VV.num > 0 /\ obj.HH.num > 0 /\ obj.VV # obj.HH

\* ---------------------------------------------------------------------------
\* C19  With RMS height sigma = 0, for every truncation order and all series
\* values and shadowing factor, the linear coefficients VV and HH are both 0.
\* ---------------------------------------------------------------------------
C19_ZeroRoughness ==
    (Live /\ user.a.sigma = 0) => (obj.VV.num = 0 /\ obj.HH.num = 0)

\* an object with sigma = 0 built from MaxTs terms with nonzero spectrum,
\* fields and shadowing factor
C19_Witness ==
    /\ Live /\ user.a.sigma = 0 /\ user.e.Ts = MaxTs /\ user.e.ShdwS # 0
    /\ \A i \in 1 .. MaxTs : user.e.Wn[i] # 0 /\ user.e.Ivv[i] # 0 /\ user.e.Ihh[i] # 0

\* ---------------------------------------------------------------------------
\* C20  A corrfunc other than 'exponential', 'gaussian', 'xpower' and 'mixed'
\* makes the constructor fail with an error before the reflection-coefficient
\* stage or any later stage is invoked, and no VV, HH, BSC, BRDF or BRF is
\* produced.
\* ---------------------------------------------------------------------------
C20_UnknownCorrfuncRejected ==
    (pc # "new" /\ user.a.corrfunc \notin param_corrfunc) =>
        /\ pc = "dead" /\ last.err = "ValueError"
        /\ last.calls = <<"Kernel.__init__">>
        /\ \A f \in {"VV", "HH", "VVdB", "HHdB", "BSC", "BRDF", "BRF"} : obj[f] = None

\* the constructor has raised for the corrfunc 'XX'
C20_Witness ==
    pc = "dead" /\ last.kind = "construct" /\ user.a.corrfunc = "XX" /\ last.err # OK

\* ---------------------------------------------------------------------------
\* C21  The orientation PDF accepts exactly a callable (stored as given),
\* None or 'gauss' (the Gaussian preset) and 'uniform' (the uniform preset);
\* any other value is rejected by the constructor and by the orientation_pdf
\* setter, and a rejected setter call leaves the stored PDF and every derived
\* slot as they were.
\* ---------------------------------------------------------------------------
PdfPreset(pdf) ==
    CASE pdf = "callable" -> "callable"
      [] pdf \in {"None", "gauss"} -> Orientation_gaussian
      [] pdf = "uniform" -> Orientation_uniform
      [] OTHER -> "rejected"

C21_PdfAccepted ==
    /\ (pc # "new" /\ last.kind = "construct" /\ ~UnknownEnum(user)) =>
           IF PdfPreset(user.orientation_pdf) = "rejected"
           THEN pc = "dead" /\ last.err = "AssertionError"
           ELSE Live /\ obj.or_pdf = PdfPreset(user.orientation_pdf)
    /\ (Live /\ nset < MaxSets) =>
           \A c \in {x \in SetterCalls : x[1] = "orientation_pdf"} :
               LET r == set(Frame(obj), c)
               IN  IF PdfPreset(c[2]) = "rejected"
                   THEN r.err = "AssertionError" /\ r.o = obj
                   ELSE r.calls # <<>> /\ r.o.or_pdf = PdfPreset(c[2])

\* the same statement for the str objects that are the literals of tmatrix.py
C21_PdfAcceptedLiteral ==
    /\ (pc # "new" /\ last.kind = "construct" /\ ~UnknownEnum(user) /\ user.orientation_pdf_literal) =>
           IF PdfPreset(user.orientation_pdf) = "rejected"
           THEN pc = "dead" /\ last.err = "AssertionError"
           ELSE Live /\ obj.or_pdf = PdfPreset(user.orientation_pdf)
    /\ (Live /\ nset < MaxSets) =>
           \A c \in {x \in SetterCalls : x[1] = "orientation_pdf" /\ x[3]} :
               LET r == set(Frame(obj), c)
               IN  IF PdfPreset(c[2]) = "rejected"
                   THEN r.err = "AssertionError" /\ r.o = obj
                   ELSE r.calls # <<>> /\ r.o.or_pdf = PdfPreset(c[2])

\* ---------------------------------------------------------------------------
\* C22  Every dB conversion made while an I2EM object is constructed (VVdB,
\* HHdB and the dB fields of BSC, BRDF and BRF) maps a non-positive linear
\* value to NaN with the floating-point warning suppressed, and the
\* constructor returns.
\* ---------------------------------------------------------------------------
NaN == [k |-> "nan"]

C22_dBQuiet ==
    (pc # "new" /\ last.kind = "construct" /\ select_corrfunc(user.a) # None) =>
        /\ Live
        /\ obj.VV.num <= 0 => obj.VVdB = NaN
        /\ obj.HH.num <= 0 => obj.HHdB = NaN
        /\ \A r \in {obj.BSC, obj.BRDF, obj.BRF} :
               /\ r.VV.num <= 0 => r.VVdB = NaN
               /\ r.HH.num <= 0 => r.HHdB = NaN
        /\ \A i \in DOMAIN last.calls : last.calls[i] # "RuntimeWarning"

\* the part that holds: NaN for every non-positive value, no exception, and
\* no warning from the conversions of __sigma_nought
C22_dBQuietInSigmaNought ==
    (pc # "new" /\ last.kind = "construct" /\ select_corrfunc(user.a) # None) =>
        /\ Live
        /\ obj.VV.num <= 0 => obj.VVdB = NaN
        /\ obj.HH.num <= 0 => obj.HHdB = NaN
        /\ \A r \in {obj.BSC, obj.BRDF, obj.BRF} :
               /\ r.VV.num <= 0 => r.VVdB = NaN
               /\ r.HH.num <= 0 => r.HHdB = NaN
        /\ \A i \in DOMAIN last.calls :
               last.calls[i] = "RuntimeWarning" => \E j \in 1 .. i - 1 : last.calls[j] = "store"

\* ---------------------------------------------------------------------------
\* C23  Right after a successful construction the derived cache is empty:
\* every slot is None, the truncation order has been computed exactly once,
\* and no scattering-matrix, cross-section or coefficient kernel has been
\* invoked.
\* ---------------------------------------------------------------------------
C23_EmptyAfterConstruction ==
    (Live /\ last.kind = "construct") =>
        LET r == init(user)
        IN  /\ r.err = OK /\ r.o = obj
            /\ \A s \in Slots : obj[s] = None
            /\ obj.nmax # None
            /\ Count(r.calls, "NMAX") = 1 /\ Count(r.calls, "NMAX_VEC_WRAPPER") = 1
            /\ \A i \in DOMAIN r.calls :
                   r.calls[i] \in {"align_all", "Angles.__init__", "NMAX", "NMAX_VEC_WRAPPER"}

\* a constructor has returned for a cylinder given by its maximum radius
C23_Witness ==
    Live /\ last.kind = "construct" /\ user.radius_type = "M" /\ user.shape = "CYL" /\ obj.XE = None

\* ---------------------------------------------------------------------------
\* C24  Cross-slot consistency: after any sequence of reads and successful
\* setter calls each stored coefficient is its producer applied to the inputs
\* stored now: ke the extinction kernel of (factor, S), kt the transmittance
\* kernel of ke, omega = QS / QE, ks the scattering kernel of (ke, omega), ka
\* the absorption kernel of (ks, omega), I the intensity kernel of Z.  (The
\* states left out are those after a setter call that raised part-way; reads
\* that raised are kept.)
\* ---------------------------------------------------------------------------
C24_CrossSlotConsistency ==
    (Live /\ (~dirty \/ nset = 0)) =>
        /\ obj.ke # None => obj.ke = KE_WRAPPER(factor(obj), obj.S)
        /\ obj.kt # None => obj.kt = KT_WRAPPER(obj.ke)
        /\ obj.omega # None => obj.omega = Divide(obj.XS, obj.XE)
        /\ obj.ks # None => obj.ks = KS_WRAPPER(obj.ke, obj.omega)
        /\ obj.ka # None => obj.ka = KA_WRAPPER(obj.ks, obj.omega)
        /\ obj.XI # None => obj.XI = XSEC_QSI_WRAPPER(obj.Z)

\* a setter call has refreshed all six coefficients under a new wavelength
C24_Witness ==
    /\ Live /\ ~dirty /\ nset > 0 /\ last.kind = "set" /\ last.err = OK
    /\ obj.wavelength # EMW_wavelength(Defaults.frequency)
    /\ \A s \in {"ke", "kt", "omega", "ks", "ka", "XI"} : obj[s] # None

\* ---------------------------------------------------------------------------
\* C25  No retries: when an external kernel fails during the first read of a
\* slot, the failure reaches the caller unchanged, the kernel is not invoked a
\* second time within that read, and the slot read, like every dependency
\* whose producer failed, is still None.
\* ---------------------------------------------------------------------------
Kernels ==
    {"NMAX_VEC_WRAPPER", "SZ_S_VEC_WRAPPER", "DBLQUAD_Z_S_WRAPPER", "XSEC_QS_S_WRAPPER", "XSEC_ASY_S_WRAPPER",
     "XSEC_QE_WRAPPER", "XSEC_QSI_WRAPPER", "KE_WRAPPER", "KT_WRAPPER", "KS_WRAPPER", "KA_WRAPPER"}

\* the slots whose producer runs the scattering cross-section kernel when the
\* slot and the slots between it and QS are None
NeedsQS(o, slot) ==
    CASE slot \in {"XS", "XAS"} -> o.XS = None
      [] slot = "omega" -> o.XS = None
      [] slot = "ks" -> o.omega = None /\ o.XS = None
      [] slot = "ka" -> o.ks = None /\ o.omega = None /\ o.XS = None
      [] OTHER -> FALSE

C25_NoRetry ==
    (Live /\ XSEC_QS_diverges(obj.nmax) /\ orient_is(obj, "S")) =>
        \A name \in ReadNames :
            LET r == read(Frame(obj), name)
            IN  (obj[SlotOf(name)] = None /\ NeedsQS(obj, SlotOf(name))) =>
                    /\ r.err = "IntegrationError"
                    /\ \A kernel \in Kernels : Count(r.calls, kernel) <= 1
                    /\ Count(r.calls, "XSEC_QS_S_WRAPPER") = 1
                    /\ r.calls[Len(r.calls)] = "XSEC_QS_S_WRAPPER"
                    /\ r.o[SlotOf(name)] = None /\ r.o.XS = None /\ r.o.omega = obj.omega
                    /\ \A s \in {"XAS", "omega", "ks", "ka"} : obj[s] = None => r.o[s] = None

\* a read of ks or ka has failed in the cross-section kernel after it had
\* stored the extinction coefficient
C25_Witness ==
    /\ Live /\ last.kind = "read" /\ last.err = "IntegrationError"
    /\ obj.ke # None /\ obj.S # None /\ obj.XS = None /\ obj.omega = None /\ obj.ks = None

\* ---------------------------------------------------------------------------
\* C26  The dependency graph of the slots is acyclic, so every read and every
\* setter call terminates: a read of any slot from any reachable state invokes
\* each producer at most once, and a setter call invokes at most one producer
\* call per slot and one truncation-order computation.
\* ---------------------------------------------------------------------------
AtMostOnce(calls) == \A p \in Producers : Count(calls, p) <= 1

C26_Terminates ==
    Live =>
        /\ \A name \in ReadNames \cup {"SZ"} :
               \A calls \in {read(Frame(obj), name).calls} :
                   AtMostOnce(calls) /\ Count(calls, "NMAX") = 0
        /\ nset < MaxSets =>
               \A c \in SetterCalls :
                   \A calls \in {set(Frame(obj), c).calls} :
                       AtMostOnce(calls) /\ (calls # <<>> => Count(calls, "NMAX") = 1)

\* a first read of ka has run the whole chain of producers
C26_Witness ==
    /\ Live /\ last.kind = "read" /\ last.err = OK /\ nset = 0
    /\ \A s \in {"S", "Z", "XS", "XE", "ke", "omega", "ks", "ka"} : obj[s] # None
    /\ \A s \in {"kt", "XAS", "XI", "dblZi"} : obj[s] = None

\* ---------------------------------------------------------------------------
\* C27  The hemispherical integral integrates over the incidence or the
\* viewing direction as a flag selects: with the flag set the kernel receives
\* the viewing zenith and azimuth as the fixed direction, with the flag
\* cleared the incidence zenith and azimuth, the flag itself is passed on to
\* the kernel, and both integrals can be obtained from a given object.
\* ---------------------------------------------------------------------------
\* what __dblquad hands the kernel for a value of the flag
FlagSelectsDirection ==
    /\ dblquad(Frame(obj), TRUE).ret =
           DBLQUAD_Z_S_WRAPPER(obj.nmax, obj.wavelength, obj.vzaDeg, obj.vaaDeg, obj.alphaDeg, obj.betaDeg, TRUE)
    /\ dblquad(Frame(obj), FALSE).ret =
           DBLQUAD_Z_S_WRAPPER(obj.nmax, obj.wavelength, obj.izaDeg, obj.iaaDeg, obj.alphaDeg, obj.betaDeg, FALSE)
    /\ dblquad(Frame(obj), TRUE).ret # dblquad(Frame(obj), FALSE).ret

\* some property of the object, read with no integral stored, returns the
\* integral for this value of the flag
Obtainable(iza_flag) ==
    \E name \in ReadNames :
        \E r \in {read(Frame([obj EXCEPT !.dblZi = None]), name)} :
            r.err = OK /\ r.ret = dblquad(Frame(obj), iza_flag).ret

C27_BothDirections ==
    (Live /\ orient_is(obj, "S")) => (FlagSelectsDirection /\ Obtainable(TRUE) /\ Obtainable(FALSE))

\* the part that holds: the flag selects the arrays and is passed on, and the
\* dblquad property returns the integral of the set flag
C27_FlagSetOnly ==
    (Live /\ orient_is(obj, "S")) => (FlagSelectsDirection /\ Obtainable(TRUE) /\ ~Obtainable(FALSE))

\* ---------------------------------------------------------------------------
\* C28  In normalization mode a read of Snorm returns the trailing sample's
\* 2x2 block of S and a read of Znorm the trailing sample's 4x4 block of Z;
\* neither read indexes outside the per-particle dimensions of its matrix.
\* ---------------------------------------------------------------------------
C28_NormBlocks ==
    (Live /\ obj.normalize /\ orient_is(obj, "S")) =>
        /\ \A r \in {prop_Snorm(Frame(obj))} :
               obj.Snorm = None =>
                   (r.err = OK /\ r.ret.of = r.o.S /\ r.ret.copied = r.o.S.dim * r.o.S.dim)
        /\ \A r \in {prop_Znorm(Frame(obj))} :
               obj.Znorm = None =>
                   (r.err = OK /\ r.ret.of = r.o.Z /\ r.ret.copied = r.o.Z.dim * r.o.Z.dim)

\* the part that holds: the read of Znorm
C28_ZnormBlock ==
    (Live /\ obj.normalize /\ orient_is(obj, "S")) =>
        \A r \in {prop_Znorm(Frame(obj))} :
            obj.Znorm = None =>
                (r.err = OK /\ r.ret.of = r.o.Z /\ r.ret.copied = r.o.Z.dim * r.o.Z.dim /\ r.o.Z.dim = 4)

\* ---------------------------------------------------------------------------
\* C29  The stages of the I2EM construction run in the fixed order reflection
\* coefficients, roughness spectrum, reflection transition, average-reflection
\* integration, bistatic coefficients, field integrals, shadowing, series sum;
\* the one Ts the reflection-coefficient stage returned is the Ts given to the
\* spectrum, transition and field-integral stages and the number of terms
\* summed, so the sum reads no series entry those stages did not produce.
\* ---------------------------------------------------------------------------
\* the calls between Kernel.__init__ and __store
StageCalls(calls) ==
    SelectSeq(calls, LAMBDA x : x \notin {"Kernel.__init__", "store", "RuntimeWarning"})

C29_StageOrder ==
    Live =>
        LET Ts == user.e.Ts
            f == user.a.corrfunc
        IN  /\ last.kind = "construct" =>
                   /\ StageCalls(last.calls) =
                          <<"reflection_coefficients", f, ToString(Ts), "r_transition", ToString(Ts),
                            "Ra_integration", "biStatic_coefficient", "Ipp", ToString(Ts),
                            "shadowing_function", "sigma_nought", ToString(Ts)>>
                   /\ last.calls[1] = "Kernel.__init__"
                   /\ Before(last.calls, "sigma_nought", "store")
            /\ Ts <= Len(user.e.Wn) /\ Ts <= Len(user.e.Ivv) /\ Ts <= Len(user.e.Ihh)
            /\ obj.VV = Backscatter(sigma_loop(1, Ts, user.e.Wn, user.e.Ivv, user.a.sigma, 0), user.a, user.e)
            /\ obj.HH = Backscatter(sigma_loop(1, Ts, user.e.Wn, user.e.Ihh, user.a.sigma, 0), user.a, user.e)

\* an object has been built from a reflection-coefficient stage that returned
\* a Ts between 0 and the length of the series
C29_Witness ==
    /\ Live /\ last.kind = "construct" /\ user.e.Ts = 2 /\ user.a.corrfunc = "mixed"
    /\ Count(last.calls, ToString(2)) = 4

\* ---------------------------------------------------------------------------
\* C30  Dependency closure: in every reachable state a stored slot has all of
\* its inputs stored: ke implies S and Z; kt implies ke; omega implies QS and
\* QE; ks implies ke and omega; ka implies ks and omega; the asymmetry cross
\* section implies QS; I, Snorm or Znorm implies S and Z.
\* ---------------------------------------------------------------------------
Stored(slots) == \A s \in slots : obj[s] # None

C30_DependencyClosure ==
    Live =>
        /\ Stored({"ke"}) => Stored({"S", "Z"})
        /\ Stored({"kt"}) => Stored({"ke"})
        /\ Stored({"omega"}) => Stored({"XS", "XE"})
        /\ Stored({"ks"}) => Stored({"ke", "omega"})
        /\ Stored({"ka"}) => Stored({"ks", "omega"})
        /\ Stored({"XAS"}) => Stored({"XS"})
        /\ \A s \in {"XI", "Snorm", "Znorm"} : Stored({s}) => Stored({"S", "Z"})

\* a setter call has raised part-way on an object with every coefficient stored
C30_Witness ==
    Live /\ dirty /\ last.kind = "set" /\ last.err # OK /\ Stored({"ka", "kt", "XAS", "XI"})

\* ---------------------------------------------------------------------------
\* C31  Frame of a read: reading a derived slot changes no configuration field
\* and no truncation order, and writes only that slot and its transitive
\* inputs (kt: kt, ke, S, Z; omega: omega, QS, QE; QAS: QS and the asymmetry
\* cross section; ...); every other slot keeps its value, so one that was
\* None stays None.
\* ---------------------------------------------------------------------------
\* the slots a read of the property may write: its own and those of the
\* properties its producer reads
MayWrite(name) ==
    CASE name \in {"S", "Z"} -> {"S", "Z"}
      [] name \in {"Snorm", "Znorm"} -> {name, "S", "Z"}
      [] name = "dblquad" -> {"dblZi"}
      [] name = "QS" -> {"XS"}
      [] name = "QAS" -> {"XAS", "XS"}
      [] name = "QE" -> {"XE"}
      [] name = "I" -> {"XI", "S", "Z"}
      [] name = "ke" -> {"ke", "S", "Z"}
      [] name = "kt" -> {"kt", "ke", "S", "Z"}
      [] name = "omega" -> {"omega", "XS", "XE"}
      [] name = "ks" -> {"ks", "ke", "S", "Z", "omega", "XS", "XE"}
      [] name = "ka" -> {"ka", "ks", "ke", "S", "Z", "omega", "XS", "XE"}

\* the fields of the object that are neither a derived slot nor the truncation order
ConfigFields == DOMAIN obj \ (Slots \cup {"nmax"})

C31_ReadFrame ==
    Live => \A name \in ReadNames :
        \A r \in {read(Frame(obj), name)} :
            /\ \A f \in ConfigFields \cup {"nmax"} : r.o[f] = obj[f]
            /\ \A s \in Slots \ MayWrite(name) : r.o[s] = obj[s]

\* kt has been read on an object with nothing stored: kt, ke, S and Z are
\* stored and every other slot is None
C31_Witness ==
    /\ Live /\ last.kind = "read" /\ last.err = OK
    /\ Stored({"kt", "ke", "S", "Z"})
    /\ \A s \in Slots \ {"kt", "ke", "S", "Z"} : obj[s] = None

\* ---------------------------------------------------------------------------
\* C32  Radius round-trip: for every radius type, the radius property returns
\* the radius the user gave last, to the constructor or to the radius setter,
\* also after later setter calls on other fields; computing the truncation
\* order never rewrites the stored radius.
\* ---------------------------------------------------------------------------
C32_RadiusRoundTrip ==
    (Live /\ ~dirty) => obj.radius = Radius(user.radius)

\* the round trip on an object whose radius type has been volume- or
\* area-equivalent since construction
C32_RoundTripEquivalentRadius ==
    (Live /\ ~dirty /\ nset = 0 /\ user.radius_type # "M") => obj.radius = Radius(user.radius)

\* ---------------------------------------------------------------------------
\* C33  I2EM and I2EM.Emissivity derive the same free-space wavenumber from
\* the same frequency argument in GHz: k = 2 * pi * frequency / 30 in both
\* classes.  Stated on the Emissivity object: its k is the number I2EM
\* derives from the frequency it was given.
\* ---------------------------------------------------------------------------
C33_SameWavenumber ==
    Live => \A w \in {wavenumber(user.a.frequency)} :
                obj.k.over = 1 /\ obj.k.num * w.den = w.num * obj.k.den

\* the two wavenumbers differ by the divisor of Emissivity's fr and by nothing else
C33_WavenumberOverGiga ==
    Live => \A w \in {wavenumber(user.a.frequency)} :
                obj.k.over = 10 ^ 9 /\ obj.k.num = w.num /\ obj.k.den = w.den

\* ---------------------------------------------------------------------------
\* C34  I2EM.Emissivity accepts the families of the backscatter engine: each
\* of 'exponential', 'gaussian', 'xpower' and 'mixed' selects a correlation
\* kernel and construction proceeds to the two integrations; only values
\* outside that set are rejected.
\* ---------------------------------------------------------------------------
\* the calls of the two integrations, in a frame's calls
Integrations(calls) == SelectSeq(calls, LAMBDA x : x \in {"dblquad", "vv", "hh"})

C34_FourFamiliesAccepted ==
    (pc # "new") =>
        IF user.a.corrfunc \in param_corrfunc
        THEN /\ pc = "live" /\ obj.corrfunc # None /\ obj.corrfunc.name = user.a.corrfunc
             /\ Integrations(last.calls) = <<"dblquad", "vv", "dblquad", "hh">> \/ last.kind = "read"
        ELSE pc = "dead" /\ last.err = "ValueError" /\ Integrations(last.calls) = <<>>

\* what the constructor does: the three families it names, given as the
\* literal's own object, are accepted; every other value is rejected
C34_ThreeLiteralsAccepted ==
    (pc # "new") =>
        IF user.a.corrfunc \in {"exponential", "gaussian", "mixed"} /\ user.a.corrfunc_literal
        THEN /\ pc = "live" /\ obj.corrfunc # None /\ obj.corrfunc.name = user.a.corrfunc
             /\ Integrations(last.calls) = <<"dblquad", "vv", "dblquad", "hh">> \/ last.kind = "read"
        ELSE pc = "dead" /\ last.err = "ValueError" /\ Integrations(last.calls) = <<>>

====
